---- MODULE Spec2Model ----
(***************************************************************************)
(* Model of the JMeter CSV transaction-reconstruction engine of            *)
(* src/src/generateUnifiedReport.js: parseJMeterResults and the helpers    *)
(* it calls (calculateStatistics, percentile, extractUserConfiguration /   *)
(* countThreadInstances, analyzeErrors).                                   *)
(*                                                                         *)
(* Text is represented as follows.  A label, response code, data type,     *)
(* failure message or URL is a TLA+ string.  A numeric CSV field is the    *)
(* string of its characters and is converted by ParseIntOr0.  A response   *)
(* message and a thread name are sequences of one-character strings (the   *)
(* phrase 'Number of samples in transaction' is the single token Marker),  *)
(* so that the regular expressions of the source can be evaluated on them. *)
(* A CSV line is the sequence of its fields; the empty sequence is a line  *)
(* that is blank after trim().                                             *)
(***************************************************************************)
EXTENDS Integers, Sequences, FiniteSets, TLC

\* ------------------------------------------------------------------------
\* Bounds of the model
\* ------------------------------------------------------------------------
\* lines of the CSV file, header and blank lines included
MaxLines == 4
\* length of a list given to calculateStatistics
MaxValues == 100
\* number of runs of equal values such a list is built from
MaxRuns == 3
\* samples given to extractUserConfiguration
MaxThreadSamples == 3
\* characters of a line typed for parseCSVLine
MaxLineLen == 5
\* error records given to analyzeErrors
MaxErrors == 7
\* models of config.ai.fallbackModels
MaxFallbacks == 2
\* samples whose URLs are searched for the environment
MaxUrls == 3

\* ------------------------------------------------------------------------
\* Generic helpers
\* ------------------------------------------------------------------------
\* the object {} without own properties
EmptyMap == [n \in {} |-> n]

\* names that every JavaScript object inherits from Object.prototype
PrototypeKeys == {"constructor", "__proto__", "toString", "valueOf", "hasOwnProperty"}

Min2(a, b) == IF a <= b THEN a ELSE b
Max2(a, b) == IF a >= b THEN a ELSE b

Range(s) == {s[k] : k \in 1..Len(s)}

\* Array.prototype.indexOf on the header: 0-based index, -1 when absent
IndexOf(arr, x) ==
    IF \E k \in 1..Len(arr) : arr[k] = x
    THEN (CHOOSE k \in 1..Len(arr) : arr[k] = x /\ \A j \in 1..(k-1) : arr[j] # x) - 1
    ELSE -1

\* Array.prototype.filter
RECURSIVE SelectIdx(_, _, _)
SelectIdx(s, keep, k) ==
    IF k > Len(s) THEN <<>>
    ELSE IF k \in keep THEN <<s[k]>> \o SelectIdx(s, keep, k + 1)
    ELSE SelectIdx(s, keep, k + 1)

\* String.prototype.includes on sequences of characters
Includes(s, sub) ==
    \E k \in 0..(Len(s) - Len(sub)) : \A j \in 1..Len(sub) : s[k + j] = sub[j]

DigitChars == {"0", "1", "2", "3", "4", "5", "6", "7", "8", "9"}
DigitVal(c) ==
    CASE c = "0" -> 0 [] c = "1" -> 1 [] c = "2" -> 2 [] c = "3" -> 3
      [] c = "4" -> 4 [] c = "5" -> 5 [] c = "6" -> 6 [] c = "7" -> 7
      [] c = "8" -> 8 [] c = "9" -> 9

\* parseInt(text, 10) of a sequence of digit characters
RECURSIVE DigitsToInt(_)
DigitsToInt(ds) ==
    IF Len(ds) = 0 THEN 0
    ELSE 10 * DigitsToInt(SubSeq(ds, 1, Len(ds) - 1)) + DigitVal(ds[Len(ds)])

\* regular-expression class \s restricted to the characters of the model
IsSpace(c) == c = " "

\* first position >= k of s that does not hold a space (Len(s)+1 if none)
RECURSIVE SkipSpaces(_, _)
SkipSpaces(s, k) ==
    IF k <= Len(s) /\ IsSpace(s[k]) THEN SkipSpaces(s, k + 1) ELSE k

\* last position of the run of digits that starts at k (k-1 if s[k] is no digit)
RECURSIVE DigitRunEnd(_, _)
DigitRunEnd(s, k) ==
    IF k <= Len(s) /\ s[k] \in DigitChars THEN DigitRunEnd(s, k + 1) ELSE k - 1

\* ------------------------------------------------------------------------
\* Numeric CSV fields: parseInt(values[k]) || 0
\* ------------------------------------------------------------------------
\* parseInt skips leading white space, reads an optional sign and the longest
\* run of digits; it yields NaN when there is no digit.
ParseIntStart(text) ==
    LET k == SkipSpaces(text, 1)
    IN IF k <= Len(text) /\ text[k] \in {"-", "+"} THEN k + 1 ELSE k

ParseIntIsNaN(text) == DigitRunEnd(text, ParseIntStart(text)) < ParseIntStart(text)

ParseIntOr0(text) ==
    IF ParseIntIsNaN(text) THEN 0
    ELSE LET b == ParseIntStart(text)
             e == DigitRunEnd(text, b)
             v == DigitsToInt(SubSeq(text, b, e))
         IN IF b > 1 /\ text[b - 1] = "-" THEN 0 - v ELSE v

\* ------------------------------------------------------------------------
\* calculateStatistics and percentile
\* ------------------------------------------------------------------------
\* Array.prototype.sort((a, b) => b - a), the comparator reversed: position k
\* holds the value that has fewer than k larger elements and at least k
\* elements that are not smaller
SortDescending(s) ==
    [k \in 1..Len(s) |->
        CHOOSE v \in Range(s) :
            /\ Cardinality({j \in 1..Len(s) : s[j] > v}) < k
            /\ k <= Cardinality({j \in 1..Len(s) : s[j] >= v})]

\* values.slice().sort((a, b) => a - b): position k of the result holds the
\* value that has fewer than k smaller elements and at least k elements that
\* are not larger
SortAsc(s) ==
    [k \in 1..Len(s) |->
        CHOOSE v \in Range(s) :
            /\ Cardinality({j \in 1..Len(s) : s[j] < v}) < k
            /\ k <= Cardinality({j \in 1..Len(s) : s[j] <= v})]

\* reduce((a, b) => a + b, 0) over s[a..b]
RECURSIVE SumRange(_, _, _)
SumRange(s, a, b) ==
    IF a > b THEN 0
    ELSE IF a = b THEN s[a]
    ELSE SumRange(s, a, (a + b) \div 2) + SumRange(s, (a + b) \div 2 + 1, b)

SumSeq(s) == SumRange(s, 1, Len(s))

\* Math.ceil(a / b) for b > 0
CeilDiv(a, b) == 0 - ((0 - a) \div b)

\* Math.floor(a / b) in the place of Math.round(a / b)
FloorDiv(a, b) == a \div b

\* Math.round(a / b) for b > 0: floor(a / b + 0.5)
RoundDiv(a, b) == (2 * a + b) \div (2 * b)

percentile(sortedArray, p) ==
    IF Len(sortedArray) = 0 THEN 0
    ELSE LET index == CeilDiv(p * Len(sortedArray), 100) - 1
         IN sortedArray[Max2(0, index) + 1]

ZeroStats == [min |-> 0, max |-> 0, avg |-> 0, p90 |-> 0, p95 |-> 0, p99 |-> 0]

calculateStatistics(values) ==
    IF Len(values) = 0 THEN ZeroStats
    ELSE LET sorted == SortAsc(values)
             sum == SumSeq(sorted)
         IN [min |-> sorted[1],
             max |-> sorted[Len(sorted)],
             avg |-> RoundDiv(sum, Len(sorted)),
             p90 |-> percentile(sorted, 90),
             p95 |-> percentile(sorted, 95),
             p99 |-> percentile(sorted, 99)]

\* the caller's list after the call: the list is copied by slice() before it
\* is sorted
InputAfterStatisticsInPlace(values) == SortAsc(values)

InputAfterStatistics(values) == values

\* ------------------------------------------------------------------------
\* Row classification and the expected child count
\* ------------------------------------------------------------------------
\* the phrase searched for in responseMessage, one token of a message
Marker == "Number of samples in transaction"

\* sample.responseMessage.includes('Number of samples in transaction')
HasMarker(msg) == \E k \in 1..Len(msg) : msg[k] = Marker

\* responseMessage.match(/Number of samples in transaction\s*:\s*(\d+)/):
\* the positions of the marker at which the expression matches
CountMatchAt(msg) ==
    {k \in 1..Len(msg) :
        /\ msg[k] = Marker
        /\ LET c == SkipSpaces(msg, k + 1)
           IN /\ c <= Len(msg)
              /\ msg[c] = ":"
              /\ LET d == SkipSpaces(msg, c + 1)
                 IN DigitRunEnd(msg, d) >= d}

\* countMatch ? parseInt(countMatch[1]) : 0
ExpectedCount(msg) ==
    IF CountMatchAt(msg) = {} THEN 0
    ELSE LET k == CHOOSE k \in CountMatchAt(msg) : \A j \in CountMatchAt(msg) : k <= j
             d == SkipSpaces(msg, SkipSpaces(msg, k + 1) + 1)
         IN DigitsToInt(SubSeq(msg, d, DigitRunEnd(msg, d)))

IsTransactionController(sample) ==
    sample.dataType = "" /\ HasMarker(sample.responseMessage)

IsIndividualRequest(sample) ==
    sample.dataType # "" \/ (sample.url # "null" /\ sample.url # "")

IsChildRequest(sample) ==
    /\ sample.dataType # "" \/ (sample.url # "null" /\ sample.url # "")
    /\ ~(sample.dataType = "" /\ HasMarker(sample.responseMessage))

\* ------------------------------------------------------------------------
\* extractUserConfiguration: countThreadInstances
\* ------------------------------------------------------------------------
\* first position of the run of digits that ends the name (Len + 1 if the
\* name does not end with a digit)
RECURSIVE DigitRunStart(_, _)
DigitRunStart(s, k) ==
    IF k >= 1 /\ s[k] \in DigitChars THEN DigitRunStart(s, k - 1) ELSE k + 1

\* the rest of the name from position k matches \s*\d+-\d+$
RestIsNumberDashNumber(name, k) ==
    LET a == SkipSpaces(name, k)
        b == DigitRunEnd(name, a)
    IN /\ b >= a
       /\ b + 1 <= Len(name)
       /\ name[b + 1] = "-"
       /\ b + 2 <= Len(name)
       /\ DigitRunEnd(name, b + 2) = Len(name)

\* threadName.match(/^(.+?)\s*\d+-\d+$/): the lengths of the prefixes (.+?)
\* with which the expression matches
GroupMatchLengths(name) ==
    {k \in 1..Len(name) : RestIsNumberDashNumber(name, k + 1)}

\* String.prototype.trim
Trim(s) ==
    LET keep == {k \in 1..Len(s) : ~IsSpace(s[k])}
    IN IF keep = {} THEN <<>>
       ELSE SubSeq(s, CHOOSE a \in keep : \A b \in keep : a <= b,
                      CHOOSE a \in keep : \A b \in keep : a >= b)

\* the key of threadsByGroup under which the thread name is filed: the
\* trimmed shortest prefix if the expression matches, else the whole name
GroupNameOf(threadName) ==
    IF GroupMatchLengths(threadName) # {}
    THEN Trim(SubSeq(threadName, 1,
              CHOOSE k \in GroupMatchLengths(threadName) :
                  \A j \in GroupMatchLengths(threadName) : k <= j))
    ELSE threadName

\* name.match(/-(\d+)$/) or else name.match(/\s+(\d+)$/) has a match
HasThreadNumber(name) ==
    LET d == DigitRunStart(name, Len(name))
    IN d <= Len(name) /\ d >= 2 /\ (name[d - 1] = "-" \/ IsSpace(name[d - 1]))

\* parseInt(match[1], 10) of that match
ThreadNumberOf(name) ==
    DigitsToInt(SubSeq(name, DigitRunStart(name, Len(name)), Len(name)))

\* Math.max(...numbers) of a non-empty set of numbers
MaxOf(numbers) == CHOOSE m \in numbers : \A o \in numbers : m >= o

\* the contribution of one group: the number of its names
GroupCountBySize(threads) == Cardinality(threads)

\* the contribution of one group of threadsByGroup to totalCount
GroupCount(threads) ==
    LET numbers == {ThreadNumberOf(n) : n \in {n \in threads : HasThreadNumber(n)}}
    IN IF numbers # {} THEN MaxOf(numbers) ELSE Cardinality(threads)

\* totalCount after threadsByGroup.forEach over the given group names
RECURSIVE SumGroupCounts(_, _)
SumGroupCounts(groupNames, names) ==
    IF groupNames = {} THEN 0
    ELSE LET g == CHOOSE g \in groupNames : TRUE
         IN GroupCount({n \in names : GroupNameOf(n) = g})
              + SumGroupCounts(groupNames \ {g}, names)

\* the samples selected by a list of names or patterns
MatchingSamples(allOfThem, needles) ==
    SelectIdx(allOfThem,
              {k \in 1..Len(allOfThem) :
                  /\ allOfThem[k].threadName # <<>>
                  /\ \E q \in 1..Len(needles) : Includes(allOfThem[k].threadName, needles[q])},
              1)

\* samples.sort((a, b) => a.timestamp - b.timestamp), the timestamps only
SortedTimestamps(matching) == SortAsc([k \in 1..Len(matching) |-> matching[k].timestamp])

\* firstSampleTimestamps: the first timestamp and every timestamp that is more
\* than executionGapMs after the one before it
FirstSampleTimestamps(ts, executionGapMs) ==
    {ts[k] : k \in {k \in 1..Len(ts) : k = 1 \/ ts[k] - ts[k - 1] > executionGapMs}}

\* the timestamps themselves taken as the windows
TimeWindowsUnbucketed(firsts, rampUpWindowMs) == firsts

\* timeWindows: Math.floor(ts / RAMP_UP_WINDOW_MS)
TimeWindows(firsts, rampUpWindowMs) == {t \div rampUpWindowMs : t \in firsts}

\* threadGroupNames when there is no JMX mapping for the user type (null,
\* undefined or an empty list)
NoNames == <<>>

\* userTypeConfig.threadGroupPatterns || [userTypeConfig.displayName]; a
\* user type without patterns is a record without that field
PatternsOf(userTypeConfig) ==
    IF "threadGroupPatterns" \in DOMAIN userTypeConfig
    THEN userTypeConfig.threadGroupPatterns
    ELSE <<userTypeConfig.displayName>>

\* the patterns taken when no sample contains a name of the list
countThreadInstancesPatternsWhenUnmatched(userTypeConfig, threadGroupNames, allOfThem, rampUpWindowMs, executionGapMs) ==
    LET matchingSamples ==
            IF Len(threadGroupNames) > 0 /\ Len(MatchingSamples(allOfThem, threadGroupNames)) > 0
            THEN MatchingSamples(allOfThem, threadGroupNames)
            ELSE MatchingSamples(allOfThem, PatternsOf(userTypeConfig))
        uniqueThreadNames == {matchingSamples[k].threadName : k \in 1..Len(matchingSamples)}
        threadsByGroup == {GroupNameOf(n) : n \in uniqueThreadNames}
        numbers == {ThreadNumberOf(n) : n \in {n \in uniqueThreadNames : HasThreadNumber(n)}}
    IN IF Len(matchingSamples) = 0 THEN 0
       ELSE IF Cardinality(threadsByGroup) > 1
            THEN SumGroupCounts(threadsByGroup, uniqueThreadNames)
       ELSE IF numbers # {} THEN MaxOf(numbers)
       ELSE IF Cardinality(uniqueThreadNames) > 1 THEN Cardinality(uniqueThreadNames)
       ELSE Max2(Max2(Cardinality(TimeWindows(FirstSampleTimestamps(
                          SortedTimestamps(matchingSamples), executionGapMs), rampUpWindowMs)),
                      Cardinality(uniqueThreadNames)), 1)

countThreadInstances(userTypeConfig, threadGroupNames, allOfThem, rampUpWindowMs, executionGapMs) ==
    LET matchingSamples ==
            IF Len(threadGroupNames) > 0
            THEN MatchingSamples(allOfThem, threadGroupNames)
            ELSE MatchingSamples(allOfThem, PatternsOf(userTypeConfig))
        uniqueThreadNames == {matchingSamples[k].threadName : k \in 1..Len(matchingSamples)}
        threadsByGroup == {GroupNameOf(n) : n \in uniqueThreadNames}
        numbers == {ThreadNumberOf(n) : n \in {n \in uniqueThreadNames : HasThreadNumber(n)}}
    IN IF Len(matchingSamples) = 0 THEN 0
       ELSE IF Cardinality(threadsByGroup) > 1
            THEN SumGroupCounts(threadsByGroup, uniqueThreadNames)
       ELSE IF numbers # {} THEN MaxOf(numbers)
       ELSE IF Cardinality(uniqueThreadNames) > 1 THEN Cardinality(uniqueThreadNames)
       ELSE Max2(Max2(Cardinality(TimeWindows(FirstSampleTimestamps(
                          SortedTimestamps(matchingSamples), executionGapMs), rampUpWindowMs)),
                      Cardinality(uniqueThreadNames)), 1)

\* reportConfig?.threadCounting?.rampUpWindowMs || 10000
DefaultRampUpWindowMs == 10000
\* reportConfig?.threadCounting?.executionGapMs || 30000
DefaultExecutionGapMs == 30000

\* config[userType.key] for every user type of reportConfig; every count is 0
\* when there are no samples
extractUserConfiguration(allOfThem, threadGroupMap, userTypes) ==
    [key \in {userTypes[k].key : k \in 1..Len(userTypes)} |->
        IF Len(allOfThem) = 0 THEN 0
        ELSE LET u == userTypes[CHOOSE k \in 1..Len(userTypes) :
                          /\ userTypes[k].key = key
                          /\ \A j \in (k + 1)..Len(userTypes) : userTypes[j].key # key]
             IN countThreadInstances(u,
                    IF key \in DOMAIN threadGroupMap THEN threadGroupMap[key] ELSE NoNames,
                    allOfThem, DefaultRampUpWindowMs, DefaultExecutionGapMs)]

\* ------------------------------------------------------------------------
\* The CSV files of the model
\* ------------------------------------------------------------------------
FullHeader ==
    <<"timeStamp", "elapsed", "label", "responseCode", "responseMessage",
      "threadName", "dataType", "success", "failureMessage", "URL">>
ScenarioHeader ==
    <<"label", "elapsed", "success", "responseCode", "responseMessage",
      "dataType", "threadName", "timeStamp">>
NoLabelHeader == <<"timeStamp", "elapsed", "responseMessage", "dataType", "success">>
NoElapsedHeader == <<"timeStamp", "label", "responseMessage", "dataType", "success">>
Headers == {FullHeader, ScenarioHeader, NoLabelHeader, NoElapsedHeader}

MsgCount(d) == <<Marker, " ", ":", " ", d>>
MsgCountAndFailing == <<Marker, " ", ":", " ", "2", ",", " ", "f", ":", "1">>
MsgNoCount == <<Marker>>
MsgOK == <<"O", "K">>

Thread11 == <<"L", " ", "1", "-", "1">>
Thread12 == <<"L", " ", "1", "-", "2">>
EnvUrl == "https://app-ui-dev.azurewebsites.net/q"

Raw(ts, el, lb, code, msg, th, dt, ok, fail, url) ==
    [timeStamp |-> ts, elapsed |-> el, label |-> lb, responseCode |-> code,
     responseMessage |-> msg, threadName |-> th, dataType |-> dt, success |-> ok,
     failureMessage |-> fail, URL |-> url]

\* the rows a file is written from: controller rows (with a count, with a count
\* followed by more text, without a count, with an empty label, with a label that
\* is a property of Object.prototype, with a URL), request rows, and a row that
\* is neither
RawRows ==
    { Raw(<<"1","0","0","0">>, <<"5","0","0">>, "Login", "200", MsgCount("1"), Thread11, "", "true", "", ""),
      Raw(<<"2","0","0","0">>, <<"3","0","0">>, "Login", "500", MsgCountAndFailing, Thread12, "", "false", "", ""),
      Raw(<<"2","0","0","0">>, <<"1">>, "Search", "200", MsgNoCount, Thread11, "", "true", "", ""),
      Raw(<<"1","0","0","0">>, <<"5">>, "", "200", MsgCount("1"), Thread11, "", "true", "", ""),
      Raw(<<"1","0","0","0">>, <<"5">>, "constructor", "200", MsgCount("1"), Thread11, "", "true", "", ""),
      Raw(<<"2","0","0","0">>, <<"5">>, "Search", "500", MsgCount("1"), Thread12, "", "false", "", EnvUrl),
      Raw(<<"1","0","0","0">>, <<"4","8","0">>, "POST /login", "200", MsgOK, Thread11, "text", "true", "", ""),
      Raw(<<"0">>, <<"-","5">>, "GET /q", "500", MsgOK, Thread12, "", "false", "boom", EnvUrl),
      Raw(<<"4","5","0","0","0">>, <<"x">>, "POST /login", "", <<>>, <<>>, "text", "false", "", "null"),
      Raw(<<"1","0","0","0">>, <<"5">>, "GET /q", "404", MsgOK, Thread11, "", "false", "", "null") }

\* the line of a row under a header: one field per column of the header
LineOf(raw, header) == [k \in 1..Len(header) |-> raw[header[k]]]

\* the rows that are also written cut off after a few fields
CutRows == {r \in RawRows : r.dataType = "text" /\ r.success = "true"}

\* a line lacking the label or the elapsed field, and the shortest line having both
CutLengths(header) ==
    LET m == Max2(IndexOf(header, "label"), IndexOf(header, "elapsed"))
    IN {k \in {m, m + 1} : k >= 1 /\ k <= Len(header)}

DataLines(header) ==
    {LineOf(r, header) : r \in RawRows}
    \cup {SubSeq(LineOf(r, header), 1, k) : r \in CutRows, k \in CutLengths(header)}

BlankLine == <<>>

\* ------------------------------------------------------------------------
\* State
\* ------------------------------------------------------------------------
VARIABLES
    csv,            \* the lines of the CSV file, in file order
    pc,             \* "write", "loop", "catch", "done", or the name of a helper run
    run,            \* number of the parse of the file (it is parsed twice)
    firstResult,    \* what the first parse returned
    result,         \* what the current parse returned
    lines,          \* csvContent.split('\n').filter((line) => line.trim())
    i,              \* loop variable of the row loop (0-based, as in the source)
    samples,        \* controller rows
    transactions,   \* transaction groups by name
    allSamples,     \* all accepted rows
    errors,         \* error records
    minTimestamp, maxTimestamp,
    totalSuccessCount, totalErrorCount,
    currentTransaction,                 \* <<>> is null, <<name>> is the name
    currentTransactionExecutionIndex,
    expectedChildRequestCount,
    collectedChildRequestCount,
    statValues,     \* the list a caller of calculateStatistics holds
    statInput,      \* that list as it was when calculateStatistics was called
    statRuns,       \* number of runs of equal values the list was built from
    statResult,     \* what calculateStatistics returned
    statPc,         \* "build" or "done"
    thSamples,      \* the samples given to extractUserConfiguration
    thUserType,     \* the user type that is counted
    thGroupNames,   \* its thread group names from the JMX file
    thCount,        \* what countThreadInstances returned
    thPc,           \* "collect" or "done"
    thCounting,     \* reportConfig.threadCounting of that call
    line,           \* the line given to parseCSVLine, a sequence of characters
    pos,            \* loop variable i of parseCSVLine (0-based)
    current,        \* the field being read
    inQuotes,       \* inside a quoted region
    fields,         \* the array result of parseCSVLine
    tokPc,          \* "type", "scan" or "done"
    errList,        \* the error records given to analyzeErrors
    errResult,      \* what analyzeErrors returned
    errPc,          \* "collect" or "done"
    aiConfig,       \* the config given to generateAIAnalysis
    modelNames,     \* primary model first, then the fallbacks
    modelIdx,       \* position in modelNames of the model tried next
    aiTried,        \* the models tried so far, each with what its call did
    lastError,      \* <<>> is null, <<message>> the error caught last
    analysisText,   \* <<>> is undefined, <<text>> the text returned
    successfulModel,    \* <<>> is null, <<name>> the model that returned
    aiError,        \* the message of the error thrown to the outer catch
    aiResult,       \* what generateAIAnalysis returned
    aiPc,           \* "idle", "loop", "after", "catch" or "done"
    envUrls,        \* the URLs of the samples given to extractUserConfiguration
    envConfig,      \* reportConfig.environment of that call
    envResult,      \* config.environment as returned
    envPc           \* "collect" or "done"

parseVars ==
    <<lines, i, samples, transactions, allSamples, errors, minTimestamp, maxTimestamp,
      totalSuccessCount, totalErrorCount, currentTransaction,
      currentTransactionExecutionIndex, expectedChildRequestCount,
      collectedChildRequestCount>>

fileVars == <<csv, pc, run, firstResult, result, parseVars>>

statVars == <<statValues, statInput, statRuns, statResult, statPc>>

threadVars == <<thSamples, thUserType, thGroupNames, thCount, thPc, thCounting>>

tokVars == <<line, pos, current, inQuotes, fields, tokPc>>

errVars == <<errList, errResult, errPc>>

aiVars ==
    <<aiConfig, modelNames, modelIdx, aiTried, lastError, analysisText,
      successfulModel, aiError, aiResult, aiPc>>

envVars == <<envUrls, envConfig, envResult, envPc>>

vars == <<fileVars, statVars, threadVars, tokVars, errVars, aiVars, envVars>>

\* the value Infinity of minTimestamp: larger than every timestamp of the model
Infinity == 1000000000

NullResult == [isNull |-> TRUE]

\* String(key) of the key used in transactions[currentTransaction]
KeyOf(cur) == IF cur = <<>> THEN "null" ELSE cur[1]

\* truthiness of currentTransaction: neither null nor the empty string
IsTruthyName(cur) == cur # <<>> /\ cur[1] # ""

\* truthiness of transactions[key]: an own group or an inherited property
LookupIsTruthy(tx, key) == key \in DOMAIN tx \/ key \in PrototypeKeys

\* ------------------------------------------------------------------------
\* One row of the loop
\* ------------------------------------------------------------------------
StrField(values, idx) == IF idx >= 0 /\ idx < Len(values) THEN values[idx + 1] ELSE ""
SeqField(values, idx) == IF idx >= 0 /\ idx < Len(values) THEN values[idx + 1] ELSE <<>>

\* the smaller of the two indices taken instead of the larger
RowAcceptedMin(values, headers) ==
    Len(values) > Min2(IndexOf(headers, "label"), IndexOf(headers, "elapsed"))

\* values.length > Math.max(labelIndex, elapsedIndex)
RowAccepted(values, headers) ==
    Len(values) > Max2(IndexOf(headers, "label"), IndexOf(headers, "elapsed"))

\* the sample object of a row; field row is the position of the line in lines
\* and stands for the identity of the object
MakeSample(values, headers, row) ==
    [label |-> StrField(values, IndexOf(headers, "label")),
     elapsed |-> ParseIntOr0(SeqField(values, IndexOf(headers, "elapsed"))),
     success |-> (IndexOf(headers, "success") >= 0
                  /\ IndexOf(headers, "success") < Len(values)
                  /\ values[IndexOf(headers, "success") + 1] = "true"),
     responseCode |-> StrField(values, IndexOf(headers, "responseCode")),
     responseMessage |-> SeqField(values, IndexOf(headers, "responseMessage")),
     dataType |-> StrField(values, IndexOf(headers, "dataType")),
     threadName |-> SeqField(values, IndexOf(headers, "threadName")),
     failureMessage |-> StrField(values, IndexOf(headers, "failureMessage")),
     url |-> StrField(values, IndexOf(headers, "URL")),
     timestamp |-> ParseIntOr0(SeqField(values, IndexOf(headers, "timeStamp"))),
     row |-> row]

ErrorRecordOf(sample) ==
    [label |-> sample.label, responseCode |-> sample.responseCode,
     responseMessage |-> sample.responseMessage,
     failureMessage |-> sample.failureMessage]

\* the test of success left out
CountsAsErrorIgnoringSuccess(sample) ==
    IsIndividualRequest(sample) /\ ~IsTransactionController(sample)

\* the exclusion of the transaction controllers left out
CountsAsErrorWithControllers(sample) ==
    ~sample.success /\ IsIndividualRequest(sample)

\* !sample.success && isIndividualRequest && !isTransactionController
CountsAsError(sample) ==
    ~sample.success /\ IsIndividualRequest(sample) /\ ~IsTransactionController(sample)

\* successes of requests only
CountsAsSuccessRequestsOnly(sample) ==
    sample.success /\ ~IsTransactionController(sample)

\* else if (sample.success)
CountsAsSuccess(sample) == sample.success

NewTransaction(name) ==
    [name |-> name, samples |-> <<>>, totalSamples |-> 0, successCount |-> 0,
     errorCount |-> 0, childRequests |-> <<>>, childRequestsByExecution |-> <<>>]

\* the failed controller row left out of errorCount
WithExecutionErrorsUncounted(tx, name, sample) ==
    LET t == IF name \in DOMAIN tx THEN tx[name] ELSE NewTransaction(name)
        u == [t EXCEPT !.samples = Append(@, sample),
                       !.totalSamples = @ + 1,
                       !.successCount = IF sample.success THEN @ + 1 ELSE @,
                       !.childRequestsByExecution = Append(@, <<>>)]
    IN [n \in DOMAIN tx \cup {name} |-> IF n = name THEN u ELSE tx[n]]

\* the group of the name after the controller row has been added to it
WithExecution(tx, name, sample) ==
    LET t == IF name \in DOMAIN tx THEN tx[name] ELSE NewTransaction(name)
        u == [t EXCEPT !.samples = Append(@, sample),
                       !.totalSamples = @ + 1,
                       !.successCount = IF sample.success THEN @ + 1 ELSE @,
                       !.errorCount = IF sample.success THEN @ ELSE @ + 1,
                       !.childRequestsByExecution = Append(@, <<>>)]
    IN [n \in DOMAIN tx \cup {name} |-> IF n = name THEN u ELSE tx[n]]

\* collectedChildRequestCount >= expectedChildRequestCount
QuotaFilled(collected, expected) == collected >= expected

\* collectedChildRequestCount < expectedChildRequestCount
QuotaOpen(collected, expected) == collected < expected

\* the increment forgotten
NextCollectedStuck(collected) == collected

\* the counter set back instead of incremented
NextCollectedReset(collected) == 0

\* collectedChildRequestCount++
NextCollected(collected) == collected + 1

\* where control goes when the body of parseJMeterResults throws: the whole
\* body is inside try { ... } catch (error) { ... return null; }
ThrowTarget == "catch"

\* the sample given to the first execution of the group
WithChildOfFirstExecution(tx, name, idx, sample) ==
    [tx EXCEPT ![name].childRequests = Append(@, sample),
               ![name].childRequestsByExecution[1] = Append(@, sample)]

\* the group after the sample has been captured by execution idx
WithChild(tx, name, idx, sample) ==
    [tx EXCEPT ![name].childRequests = Append(@, sample),
               ![name].childRequestsByExecution[idx + 1] = Append(@, sample)]

\* ------------------------------------------------------------------------
\* Finalization of the groups
\* ------------------------------------------------------------------------
\* the decimals cut off instead of rounded
ToFixed2Truncated(num, den) == (num * 100) \div den

\* (num / den).toFixed(2), as the number of hundredths of the decimal text
ToFixed2(num, den) == RoundDiv(num * 100, den)

\* the last request of each label kept instead of the first
UniqueByLabelKeepLast(reqs, seenLabels) ==
    SelectIdx(reqs, {k \in 1..Len(reqs) : \A j \in (k + 1)..Len(reqs) : reqs[j].label # reqs[k].label}, 1)

\* first request of each label, in order of first occurrence
RECURSIVE UniqueByLabel(_, _)
UniqueByLabel(reqs, seenLabels) ==
    IF Len(reqs) = 0 THEN <<>>
    ELSE IF reqs[1].label \in seenLabels THEN UniqueByLabel(Tail(reqs), seenLabels)
    ELSE <<reqs[1]>> \o UniqueByLabel(Tail(reqs), seenLabels \cup {reqs[1].label})

\* the elapsed times of the captured child requests taken in as well
ResponseTimesWithChildren(transaction) ==
    [k \in 1..Len(transaction.samples) |-> transaction.samples[k].elapsed]
      \o [k \in 1..Len(transaction.childRequests) |-> transaction.childRequests[k].elapsed]

\* transaction.samples.map((s) => s.elapsed)
ResponseTimes(transaction) ==
    [k \in 1..Len(transaction.samples) |-> transaction.samples[k].elapsed]

FinalizeTransaction(transaction) ==
    [name |-> transaction.name,
     samples |-> transaction.samples,
     totalSamples |-> transaction.totalSamples,
     successCount |-> transaction.successCount,
     errorCount |-> transaction.errorCount,
     childRequests |-> transaction.childRequests,
     childRequestsByExecution |-> transaction.childRequestsByExecution,
     stats |-> calculateStatistics(ResponseTimes(transaction)),
     errorRate |-> ToFixed2(transaction.errorCount * 100, transaction.totalSamples),
     uniqueChildRequests |-> UniqueByLabel(transaction.childRequests, {})]

\* ------------------------------------------------------------------------
\* analyzeErrors
\* ------------------------------------------------------------------------
\* error.responseCode || 'Unknown'
ErrorTypeOf(error) == IF error.responseCode # "" THEN error.responseCode ELSE "Unknown"

\* error.responseMessage || 'No message'
TypeMessageOf(error) ==
    IF error.responseMessage # <<>> THEN error.responseMessage ELSE <<"No message">>

\* error.failureMessage || error.responseMessage || ''
SamplerMessageOf(error) ==
    IF error.failureMessage # "" THEN <<error.failureMessage>> ELSE error.responseMessage

\* the positions of the list at which a key occurs for the first time; a key
\* that names a property inherited from Object.prototype finds that property
\* in the empty object and never gets an entry of its own
FirstOccurrences(keys) ==
    {k \in 1..Len(keys) :
        keys[k] \notin PrototypeKeys /\ \A j \in 1..(k - 1) : keys[j] # keys[k]}

CountOf(keys, key) == Cardinality({k \in 1..Len(keys) : keys[k] = key})

\* errorsByType: one entry per response code
ErrorsByType(errorList) ==
    LET types == [k \in 1..Len(errorList) |-> ErrorTypeOf(errorList[k])]
    IN [t \in {types[k] : k \in FirstOccurrences(types)} |->
          [code |-> t,
           count |-> CountOf(types, t),
           message |-> TypeMessageOf(errorList[CHOOSE k \in FirstOccurrences(types) : types[k] = t])]]

\* the value of a key that is a canonical array index (a decimal number
\* without sign or leading zero), -1 for any other key; the labels of the
\* model that are such keys are '7' and '12'
ArrayIndexOf(key) == CASE key = "7" -> 7 [] key = "12" -> 12 [] OTHER -> 0 - 1

\* the order in which Object.values lists the properties of an object: the
\* array-index keys in ascending numeric order, then the other keys in the
\* order in which they were created
OwnPropertyOrder(entries) ==
    LET indexOf(k) == ArrayIndexOf(entries[k].sampler)
        isIndex(k) == indexOf(k) >= 0
        posOf == [k \in 1..Len(entries) |->
                     IF isIndex(k)
                     THEN 1 + Cardinality({j \in 1..Len(entries) :
                                  isIndex(j) /\ indexOf(j) < indexOf(k)})
                     ELSE 1 + Cardinality({j \in 1..Len(entries) : isIndex(j)})
                            + Cardinality({j \in 1..(k - 1) : ~isIndex(j)})]
    IN [q \in 1..Len(entries) |-> entries[CHOOSE k \in 1..Len(entries) : posOf[k] = q]]

\* Object.values(errorsBySampler): one entry per label
ErrorsBySampler(errorList) ==
    LET labels == [k \in 1..Len(errorList) |-> errorList[k].label]
        entryOf == [k \in 1..Len(errorList) |->
                       [sampler |-> labels[k],
                        count |-> CountOf(labels, labels[k]),
                        errorType |-> ErrorTypeOf(errorList[k]),
                        message |-> SamplerMessageOf(errorList[k])]]
    IN OwnPropertyOrder(SelectIdx(entryOf, FirstOccurrences(labels), 1))

\* sort((a, b) => b.count - a.count), a stable sort: an entry goes after the
\* entries with a larger count and the earlier entries with the same count
SortByCountDescending(entries) ==
    LET posOf == [k \in 1..Len(entries) |->
                     1 + Cardinality({j \in 1..Len(entries) : entries[j].count > entries[k].count})
                       + Cardinality({j \in 1..(k - 1) : entries[j].count = entries[k].count})]
    IN [q \in 1..Len(entries) |-> entries[CHOOSE k \in 1..Len(entries) : posOf[k] = q]]

\* slice(0, 5)
TopCount == 5

analyzeErrors(errorList) ==
    IF Len(errorList) = 0
    THEN [hasErrors |-> FALSE, totalErrors |-> 0, errorsByType |-> EmptyMap,
          topErrorsBySampler |-> <<>>]
    ELSE [hasErrors |-> TRUE,
          totalErrors |-> Len(errorList),
          errorsByType |-> ErrorsByType(errorList),
          topErrorsBySampler |->
              SubSeq(SortByCountDescending(ErrorsBySampler(errorList)), 1,
                     Min2(TopCount, Len(ErrorsBySampler(errorList))))]

\* 0 for a pass without tallied rows
PassPercentageZeroWhenEmpty(successCount, requestCount) ==
    IF requestCount > 0 THEN ToFixed2(successCount * 100, requestCount) ELSE 0

\* totalRequestCount > 0 ? ((totalSuccessCount / totalRequestCount) * 100).toFixed(2) : 100,
\* as a number of hundredths
PassPercentage(successCount, requestCount) ==
    IF requestCount > 0 THEN ToFixed2(successCount * 100, requestCount) ELSE 10000

\* ------------------------------------------------------------------------
\* Writing the file
\* ------------------------------------------------------------------------
NonBlank(file) == SelectIdx(file, {k \in 1..Len(file) : Len(file[k]) > 0}, 1)

WriteHeader(h) ==
    /\ pc = "write"
    /\ Len(csv) < MaxLines
    /\ Len(NonBlank(csv)) = 0
    /\ csv' = Append(csv, h)
    /\ UNCHANGED <<pc, run, firstResult, result, parseVars>>

WriteLine ==
    /\ pc = "write"
    /\ Len(csv) < MaxLines
    /\ Len(NonBlank(csv)) > 0
    /\ \E l \in DataLines(NonBlank(csv)[1]) : csv' = Append(csv, l)
    /\ UNCHANGED <<pc, run, firstResult, result, parseVars>>

WriteBlank ==
    /\ pc = "write"
    /\ Len(csv) < MaxLines
    /\ csv' = Append(csv, BlankLine)
    /\ UNCHANGED <<pc, run, firstResult, result, parseVars>>

\* ------------------------------------------------------------------------
\* parseJMeterResults
\* ------------------------------------------------------------------------
\* the groups kept in a variable that outlives the call
FreshLocalsKeepGroups(fileLines) ==
    /\ lines' = fileLines
    /\ i' = 1
    /\ samples' = <<>>
    /\ transactions' = transactions
    /\ allSamples' = <<>>
    /\ errors' = <<>>
    /\ minTimestamp' = Infinity
    /\ maxTimestamp' = 0
    /\ totalSuccessCount' = 0
    /\ totalErrorCount' = 0
    /\ currentTransaction' = <<>>
    /\ currentTransactionExecutionIndex' = -1
    /\ expectedChildRequestCount' = 0
    /\ collectedChildRequestCount' = 0

\* the local variables as declared before the loop
FreshLocals(fileLines) ==
    /\ lines' = fileLines
    /\ i' = 1
    /\ samples' = <<>>
    /\ transactions' = EmptyMap
    /\ allSamples' = <<>>
    /\ errors' = <<>>
    /\ minTimestamp' = Infinity
    /\ maxTimestamp' = 0
    /\ totalSuccessCount' = 0
    /\ totalErrorCount' = 0
    /\ currentTransaction' = <<>>
    /\ currentTransactionExecutionIndex' = -1
    /\ expectedChildRequestCount' = 0
    /\ collectedChildRequestCount' = 0

\* a header without data rows let through
RejectsFileHeaderOnly(fileLines) ==
    \/ Len(fileLines) < 1
    \/ IndexOf(fileLines[1], "label") = -1
    \/ IndexOf(fileLines[1], "elapsed") = -1

\* lines.length < 2, or the header lacks label or elapsed
RejectsFile(fileLines) ==
    \/ Len(fileLines) < 2
    \/ IndexOf(fileLines[1], "label") = -1
    \/ IndexOf(fileLines[1], "elapsed") = -1

\* reading the file up to the start of the row loop; the file is parsed a
\* second time after the first parse has returned
StartParse ==
    /\ \/ pc = "write" /\ run' = 1 /\ firstResult' = NullResult
       \/ pc = "done" /\ run = 1 /\ run' = 2 /\ firstResult' = result
    /\ FreshLocals(NonBlank(csv))
    /\ IF RejectsFile(NonBlank(csv))
       THEN pc' = "done" /\ result' = NullResult
       ELSE pc' = "loop" /\ result' = NullResult
    /\ UNCHANGED csv

\* the row loop has rows left
InLoop == pc = "loop" /\ i < Len(lines)

\* the line and the sample of the current iteration
CurrentValues == lines[i + 1]
CurrentSample == MakeSample(CurrentValues, lines[1], i + 1)

\* a row with too few fields: the body of the loop is skipped
SkipRow ==
    /\ InLoop
    /\ ~RowAccepted(CurrentValues, lines[1])
    /\ i' = i + 1
    /\ UNCHANGED <<csv, pc, run, firstResult, result, lines, samples, transactions,
                   allSamples, errors, minTimestamp, maxTimestamp, totalSuccessCount,
                   totalErrorCount, currentTransaction, currentTransactionExecutionIndex,
                   expectedChildRequestCount, collectedChildRequestCount>>

\* what every accepted row does first: the sample list, the timestamp bounds,
\* the error list and the tallies
RecordSample(sample) ==
    /\ allSamples' = Append(allSamples, sample)
    /\ IF sample.timestamp > 0
       THEN /\ minTimestamp' = Min2(minTimestamp, sample.timestamp)
            /\ maxTimestamp' = Max2(maxTimestamp, sample.timestamp + sample.elapsed)
       ELSE UNCHANGED <<minTimestamp, maxTimestamp>>
    /\ IF CountsAsError(sample)
       THEN /\ errors' = Append(errors, ErrorRecordOf(sample))
            /\ totalErrorCount' = totalErrorCount + 1
            /\ UNCHANGED totalSuccessCount
       ELSE /\ totalSuccessCount' = IF CountsAsSuccess(sample) THEN totalSuccessCount + 1
                                    ELSE totalSuccessCount
            /\ UNCHANGED <<errors, totalErrorCount>>

\* a controller row whose label names a property inherited from Object.prototype
\* and no group: transactions[label].samples is undefined and reading its
\* length raises a TypeError
ControllerThrows(sample) ==
    sample.label \notin DOMAIN transactions /\ sample.label \in PrototypeKeys

\* a transaction controller row
ControllerRow ==
    /\ InLoop
    /\ RowAccepted(CurrentValues, lines[1])
    /\ CurrentSample.dataType = "" /\ HasMarker(CurrentSample.responseMessage)
    /\ RecordSample(CurrentSample)
    /\ samples' = Append(samples, CurrentSample)
    /\ IF ControllerThrows(CurrentSample)
       THEN /\ pc' = ThrowTarget
            /\ UNCHANGED <<i, transactions, currentTransaction,
                           currentTransactionExecutionIndex, expectedChildRequestCount,
                           collectedChildRequestCount>>
       ELSE /\ pc' = pc
            /\ i' = i + 1
            /\ transactions' = WithExecution(transactions, CurrentSample.label, CurrentSample)
            /\ currentTransaction' = <<CurrentSample.label>>
            /\ currentTransactionExecutionIndex' =
                   IF CurrentSample.label \in DOMAIN transactions
                   THEN Len(transactions[CurrentSample.label].samples) ELSE 0
            /\ expectedChildRequestCount' = ExpectedCount(CurrentSample.responseMessage)
            /\ collectedChildRequestCount' = 0
    /\ UNCHANGED <<csv, run, firstResult, result, lines>>

\* any other accepted row
OtherRow ==
    /\ InLoop
    /\ RowAccepted(CurrentValues, lines[1])
    /\ ~(CurrentSample.dataType = "" /\ HasMarker(CurrentSample.responseMessage))
    /\ RecordSample(CurrentSample)
    /\ i' = i + 1
    /\ IF IsTruthyName(currentTransaction) /\ currentTransactionExecutionIndex >= 0
       THEN LET closed == QuotaFilled(collectedChildRequestCount, expectedChildRequestCount)
                cur == IF closed THEN <<>> ELSE currentTransaction
                idx == IF closed THEN -1 ELSE currentTransactionExecutionIndex
                expected == IF closed THEN 0 ELSE expectedChildRequestCount
                collected == IF closed THEN 0 ELSE collectedChildRequestCount
            IN IF /\ IsChildRequest(CurrentSample)
                  /\ LookupIsTruthy(transactions, KeyOf(cur))
                  /\ QuotaOpen(collected, expected)
               THEN /\ transactions' = WithChild(transactions, KeyOf(cur), idx, CurrentSample)
                    /\ collectedChildRequestCount' = NextCollected(collected)
                    /\ currentTransaction' = cur
                    /\ currentTransactionExecutionIndex' = idx
                    /\ expectedChildRequestCount' = expected
               ELSE IF CurrentSample.dataType = "" /\ HasMarker(CurrentSample.responseMessage)
               THEN /\ currentTransaction' = <<>>
                    /\ currentTransactionExecutionIndex' = -1
                    /\ expectedChildRequestCount' = 0
                    /\ collectedChildRequestCount' = 0
                    /\ UNCHANGED transactions
               ELSE /\ currentTransaction' = cur
                    /\ currentTransactionExecutionIndex' = idx
                    /\ expectedChildRequestCount' = expected
                    /\ collectedChildRequestCount' = collected
                    /\ UNCHANGED transactions
       ELSE UNCHANGED <<transactions, currentTransaction, currentTransactionExecutionIndex,
                        expectedChildRequestCount, collectedChildRequestCount>>
    /\ UNCHANGED <<csv, pc, run, firstResult, result, lines, samples>>

\* catch (error) { ... return null; }
Catch ==
    /\ pc = "catch"
    /\ pc' = "done"
    /\ result' = NullResult
    /\ UNCHANGED <<csv, run, firstResult, parseVars>>

\* the configuration of the parse: one user type matched by the pattern 'L',
\* and no JMX file (parseJMXThreadGroups returns null)
ReportUserTypes ==
    <<[key |-> "loginUsers", displayName |-> <<"L", "s">>, threadGroupPatterns |-> <<<<"L">>>>]>>
ReportThreadGroupMap == EmptyMap

\* the code after the loop
Finalize ==
    /\ pc = "loop"
    /\ i >= Len(lines)
    /\ transactions' = [n \in DOMAIN transactions |-> FinalizeTransaction(transactions[n])]
    /\ result' =
         [isNull |-> FALSE,
          totalSamples |-> Len(samples),
          samples |-> samples,
          transactions |-> transactions',
          startTimestamp |-> minTimestamp,
          endTimestamp |-> maxTimestamp,
          totalRequests |-> totalSuccessCount + totalErrorCount,
          totalSuccessCount |-> totalSuccessCount,
          totalErrorCount |-> totalErrorCount,
          userConfig |-> extractUserConfiguration(allSamples, ReportThreadGroupMap, ReportUserTypes),
          passPercentage |-> PassPercentage(totalSuccessCount, totalSuccessCount + totalErrorCount),
          errorAnalysis |-> analyzeErrors(errors)]
    /\ pc' = "done"
    /\ UNCHANGED <<csv, run, firstResult, lines, i, samples, allSamples, errors,
                   minTimestamp, maxTimestamp, totalSuccessCount, totalErrorCount,
                   currentTransaction, currentTransactionExecutionIndex,
                   expectedChildRequestCount, collectedChildRequestCount>>

InitParse ==
    /\ csv = <<>>
    /\ pc = "write"
    /\ run = 0
    /\ firstResult = NullResult
    /\ result = NullResult
    /\ lines = <<>>
    /\ i = 1
    /\ samples = <<>>
    /\ transactions = EmptyMap
    /\ allSamples = <<>>
    /\ errors = <<>>
    /\ minTimestamp = Infinity
    /\ maxTimestamp = 0
    /\ totalSuccessCount = 0
    /\ totalErrorCount = 0
    /\ currentTransaction = <<>>
    /\ currentTransactionExecutionIndex = -1
    /\ expectedChildRequestCount = 0
    /\ collectedChildRequestCount = 0

NextParse ==
    \/ \E h \in Headers : WriteHeader(h)
    \/ WriteLine
    \/ WriteBlank
    \/ StartParse
    \/ SkipRow
    \/ ControllerRow
    \/ OtherRow
    \/ Catch
    \/ Finalize

\* ------------------------------------------------------------------------
\* calculateStatistics called on a list
\* ------------------------------------------------------------------------
\* elapsed times and the lengths of the runs of equal values
StatValueSet == {0 - 5, 0, 4}
RunLengths == {1, 9, 90}

InitStats ==
    /\ statValues = <<>>
    /\ statInput = <<>>
    /\ statRuns = 0
    /\ statResult = ZeroStats
    /\ statPc = "build"

\* the caller appends n times the value v
PushRun(v, n) ==
    /\ statPc = "build"
    /\ statRuns < MaxRuns
    /\ Len(statValues) + n <= MaxValues
    /\ statValues' = statValues \o [k \in 1..n |-> v]
    /\ statRuns' = statRuns + 1
    /\ UNCHANGED <<statInput, statResult, statPc>>

CallStatistics ==
    /\ statPc = "build"
    /\ statInput' = statValues
    /\ statResult' = calculateStatistics(statValues)
    /\ statValues' = InputAfterStatistics(statValues)
    /\ statPc' = "done"
    /\ UNCHANGED statRuns

NextStats ==
    \/ \E v \in StatValueSet, n \in RunLengths : PushRun(v, n)
    \/ CallStatistics

\* ------------------------------------------------------------------------
\* countThreadInstances called on a list of samples
\* ------------------------------------------------------------------------
ThreadSample(name, ts) == [threadName |-> name, timestamp |-> ts]

\* thread names 'A 1-1', 'A 1-2', 'A 1-3', 'A 2-1', 'A 1-0', 'A1-2', 'B 1-1',
\* 'B 1-2', 'A-1', 'A-2', 'A-3', 'A 1', all at one timestamp; the bare names 'A' and
\* 'B', 'A' at three timestamps; and a sample without thread name
ThreadSamplePool ==
    { ThreadSample(<<"A", " ", "1", "-", "1">>, 1000),
      ThreadSample(<<"A", " ", "1", "-", "2">>, 1000),
      ThreadSample(<<"A", " ", "1", "-", "3">>, 1000),
      ThreadSample(<<"A", " ", "2", "-", "1">>, 1000),
      ThreadSample(<<"A", " ", "1", "-", "0">>, 1000),
      ThreadSample(<<"A", "1", "-", "2">>, 1000),
      ThreadSample(<<"B", " ", "1", "-", "1">>, 1000),
      ThreadSample(<<"B", " ", "1", "-", "2">>, 1000),
      ThreadSample(<<"A", "-", "1">>, 1000),
      ThreadSample(<<"A", "-", "2">>, 1000),
      ThreadSample(<<"A", "-", "3">>, 1000),
      ThreadSample(<<"A", " ", "1">>, 1000),
      ThreadSample(<<"A">>, 1000),
      ThreadSample(<<"A">>, 25000),
      ThreadSample(<<"A">>, 45000),
      ThreadSample(<<"B">>, 1000),
      ThreadSample(<<>>, 1000) }

\* user types: pattern 'A'; patterns 'A' and 'B'; no patterns, display name 'B'
UserTypeChoices ==
    { [key |-> "a", displayName |-> <<"A", "s">>, threadGroupPatterns |-> <<<<"A">>>>],
      [key |-> "ab", displayName |-> <<"A", "B">>, threadGroupPatterns |-> <<<<"A">>, <<"B">>>>],
      [key |-> "b", displayName |-> <<"B">>] }

\* no JMX names for the user type, or the JMX thread group 'B'
GroupNameChoices == {NoNames, <<<<"B">>>>}

\* reportConfig.threadCounting: absent, or a ramp-up window that is longer
\* than the execution gap
NoThreadCounting == EmptyMap
ThreadCountingChoices ==
    {NoThreadCounting, [rampUpWindowMs |-> 100000, executionGapMs |-> 3000]}

\* reportConfig?.threadCounting?.rampUpWindowMs || 10000
RampUpWindowOf(threadCounting) ==
    IF "rampUpWindowMs" \in DOMAIN threadCounting /\ threadCounting.rampUpWindowMs # 0
    THEN threadCounting.rampUpWindowMs
    ELSE DefaultRampUpWindowMs

\* reportConfig?.threadCounting?.executionGapMs || 30000
ExecutionGapOf(threadCounting) ==
    IF "executionGapMs" \in DOMAIN threadCounting /\ threadCounting.executionGapMs # 0
    THEN threadCounting.executionGapMs
    ELSE DefaultExecutionGapMs

InitThreads ==
    /\ thSamples = <<>>
    /\ thUserType = [key |-> "b", displayName |-> <<"B">>]
    /\ thGroupNames = NoNames
    /\ thCount = 0
    /\ thPc = "collect"
    /\ thCounting = NoThreadCounting

\* one more row of the log
AddThreadSample(sample) ==
    /\ thPc = "collect"
    /\ Len(thSamples) < MaxThreadSamples
    /\ thSamples' = Append(thSamples, sample)
    /\ UNCHANGED <<thUserType, thGroupNames, thCount, thPc, thCounting>>

CountThreads(userType, groupNames, threadCounting) ==
    /\ thPc = "collect"
    /\ thUserType' = userType
    /\ thGroupNames' = groupNames
    /\ thCounting' = threadCounting
    /\ thCount' = countThreadInstances(userType, groupNames, thSamples,
                                       RampUpWindowOf(threadCounting),
                                       ExecutionGapOf(threadCounting))
    /\ thPc' = "done"
    /\ UNCHANGED thSamples

NextThreads ==
    \/ \E sample \in ThreadSamplePool : AddThreadSample(sample)
    \/ \E userType \in UserTypeChoices, groupNames \in GroupNameChoices,
             threadCounting \in ThreadCountingChoices :
          CountThreads(userType, groupNames, threadCounting)

\* ------------------------------------------------------------------------
\* parseCSVLine called on a line
\* ------------------------------------------------------------------------
Quote == "\""
Comma == ","

\* the characters a line is typed from
LineChars == {"a", "b", Comma, Quote}

\* the line "a,""b"",c" (quotes included)
ScenarioLine == <<Quote, "a", Comma, Quote, Quote, "b", Quote, Quote, Comma, "c", Quote>>

\* the test of the quoting state left out
IsEscapedQuoteAnywhere(ln, k, quoted) == k + 1 < Len(ln) /\ ln[k + 2] = Quote

\* inQuotes && line[i + 1] === '"', k being the 0-based index i
IsEscapedQuote(ln, k, quoted) == quoted /\ k + 1 < Len(ln) /\ ln[k + 2] = Quote

InitTokenizer ==
    /\ line = <<>>
    /\ pos = 0
    /\ current = <<>>
    /\ inQuotes = FALSE
    /\ fields = <<>>
    /\ tokPc = "type"

TypeChar(c) ==
    /\ tokPc = "type"
    /\ Len(line) < MaxLineLen
    /\ line' = Append(line, c)
    /\ UNCHANGED <<pos, current, inQuotes, fields, tokPc>>

TypeScenario ==
    /\ tokPc = "type"
    /\ line = <<>>
    /\ line' = ScenarioLine
    /\ UNCHANGED <<pos, current, inQuotes, fields, tokPc>>

\* the call: result = [], current = '', inQuotes = false, i = 0
CallParseCSVLine ==
    /\ tokPc = "type"
    /\ tokPc' = "scan"
    /\ pos' = 0
    /\ current' = <<>>
    /\ inQuotes' = FALSE
    /\ fields' = <<>>
    /\ UNCHANGED line

\* one iteration of the loop over the characters
ScanChar ==
    /\ tokPc = "scan"
    /\ pos < Len(line)
    /\ LET char == line[pos + 1]
       IN IF char = Quote
          THEN IF IsEscapedQuote(line, pos, inQuotes)
               THEN /\ current' = Append(current, Quote)
                    /\ pos' = pos + 2
                    /\ UNCHANGED <<inQuotes, fields>>
               ELSE /\ inQuotes' = ~inQuotes
                    /\ pos' = pos + 1
                    /\ UNCHANGED <<current, fields>>
          ELSE IF char = Comma /\ ~inQuotes
          THEN /\ fields' = Append(fields, current)
               /\ current' = <<>>
               /\ pos' = pos + 1
               /\ UNCHANGED inQuotes
          ELSE /\ current' = Append(current, char)
               /\ pos' = pos + 1
               /\ UNCHANGED <<inQuotes, fields>>
    /\ UNCHANGED <<line, tokPc>>

\* result.push(current); return result
ReturnFields ==
    /\ tokPc = "scan"
    /\ pos >= Len(line)
    /\ fields' = Append(fields, current)
    /\ tokPc' = "done"
    /\ UNCHANGED <<line, pos, current, inQuotes>>

NextTokenizer ==
    \/ \E c \in LineChars : TypeChar(c)
    \/ TypeScenario
    \/ CallParseCSVLine
    \/ ScanChar
    \/ ReturnFields

\* ------------------------------------------------------------------------
\* analyzeErrors called on a list of error records
\* ------------------------------------------------------------------------
ErrorRecord(lb, code, msg, fail) ==
    [label |-> lb, responseCode |-> code, responseMessage |-> msg, failureMessage |-> fail]

\* error records of six labels, one of them the array index '7', with the
\* response codes '500', '404', none, and 'constructor'
ErrorPool ==
    { ErrorRecord("GET /a", "500", MsgOK, ""),
      ErrorRecord("GET /b", "", <<>>, "boom"),
      ErrorRecord("GET /c", "500", MsgOK, ""),
      ErrorRecord("GET /d", "404", MsgOK, ""),
      ErrorRecord("7", "404", MsgOK, ""),
      ErrorRecord("GET /e", "constructor", MsgOK, "") }

InitErrors ==
    /\ errList = <<>>
    /\ errResult = [hasErrors |-> FALSE, totalErrors |-> 0, errorsByType |-> EmptyMap,
                    topErrorsBySampler |-> <<>>]
    /\ errPc = "collect"

\* errors.push(...) of the caller
AddError(e) ==
    /\ errPc = "collect"
    /\ Len(errList) < MaxErrors
    /\ errList' = Append(errList, e)
    /\ UNCHANGED <<errResult, errPc>>

CallAnalyzeErrors ==
    /\ errPc = "collect"
    /\ errResult' = analyzeErrors(errList)
    /\ errPc' = "done"
    /\ UNCHANGED errList

NextErrors ==
    \/ \E e \in ErrorPool : AddError(e)
    \/ CallAnalyzeErrors

\* ------------------------------------------------------------------------
\* generateAIAnalysis (src/src/generateAIAnalysis.js)
\* ------------------------------------------------------------------------
\* A config is a record: aiAnalysis (config.features.aiAnalysis), apiKey and
\* envKey (config.ai.apiKey and process.env.GEMINI_API_KEY, '' when unset),
\* and the fields model and fallbackModels of config.ai when they are set.
\* The message of an error is a sequence of words; 'not found' and 'API key'
\* are single words.
DefaultPrimaryModel == "gemini-2.5-pro"
DefaultFallbackModels == <<"gemini-1.5-pro", "gemini-pro">>

\* aiConfig.model || 'gemini-2.5-pro'
PrimaryModelOf(config) ==
    IF "model" \in DOMAIN config /\ config.model # "" THEN config.model
    ELSE DefaultPrimaryModel

\* aiConfig.fallbackModels || ['gemini-1.5-pro', 'gemini-pro']; an empty
\* array is truthy
FallbackModelsOf(config) ==
    IF "fallbackModels" \in DOMAIN config THEN config.fallbackModels
    ELSE DefaultFallbackModels

\* the fallbacks put before the primary model
ModelNamesFallbacksFirst(config) == FallbackModelsOf(config) \o <<PrimaryModelOf(config)>>

\* [primaryModel, ...fallbackModels]
ModelNames(config) == <<PrimaryModelOf(config)>> \o FallbackModelsOf(config)

\* errorMsg.includes(word)
MsgIncludes(msg, word) == \E k \in 1..Len(msg) : msg[k] = word

\* errorMsg.includes('not found') || errorMsg.includes('404') || errorMsg.includes('is not found')
IsNotFoundError(msg) ==
    \/ MsgIncludes(msg, "not found")
    \/ MsgIncludes(msg, "404")
    \/ Includes(msg, <<"is", "not found">>)

\* the status codes only
IsAuthErrorStatusOnly(msg) == MsgIncludes(msg, "403") \/ MsgIncludes(msg, "401")

\* errorMsg.includes('403') || errorMsg.includes('401') || errorMsg.includes('API key')
IsAuthError(msg) ==
    MsgIncludes(msg, "403") \/ MsgIncludes(msg, "401") \/ MsgIncludes(msg, "API key")

\* generateFallbackHTML(message) and formatAnalysisAsHTML(text, data, model):
\* the kind of the page and what is put into it
FallbackHTML(message) == <<"ai-analysis-content", "fallback-message", message>>
AnalysisHTML(text, model) == <<"ai-analysis-content", "analysis-text", text, model>>

DisabledMessage == <<"AI analysis is disabled in configuration">>
NoKeyMessage == <<"AI analysis is not configured">>

\* the return value of the disabled, unconfigured and failed cases
FailureResult(error, message) ==
    [success |-> FALSE, error |-> error, html |-> FallbackHTML(message)]

\* `AI analysis failed: ${error.message}. ...`
FailedMessage(error) == <<"AI analysis failed">> \o error

\* `All Gemini models failed. Last error: ${errorMsg}. Tried models: ${modelNames.join(', ')}`
\* with errorMsg = lastError?.message || 'Unknown error'
AllFailedError(last, names) ==
    <<"All Gemini models failed">>
      \o (IF last = <<>> \/ last[1] = <<>> THEN <<"Unknown error">> ELSE last[1])
      \o names

\* the configs of the model
FallbackChoices == {"m1", "m2"}
FallbackLists == UNION {[1..k -> FallbackChoices] : k \in 0..MaxFallbacks}
AIConfigs ==
    {[aiAnalysis |-> on, apiKey |-> key, envKey |-> env] :
        on \in BOOLEAN, key \in {"", "k"}, env \in {"", "e"}}
    \cup {[aiAnalysis |-> TRUE, apiKey |-> "k", envKey |-> "", model |-> m] : m \in {"", "m0"}}
    \cup {[aiAnalysis |-> TRUE, apiKey |-> "", envKey |-> "e", model |-> "m0", fallbackModels |-> f] :
            f \in FallbackLists}

\* what a model returns, and the messages of the errors a model call throws:
\* no message, model not found, two authentication errors, a message with
\* 'API key' and 'not found', a rate limit
ModelTexts == {"", "## Executive Summary"}
ModelErrors ==
    { <<>>,
      <<"models/m", "is", "not found">>,
      <<"401", "Unauthorized">>,
      <<"API key", "not valid">>,
      <<"API key", "not found">>,
      <<"429", "quota">> }

InitAI ==
    /\ aiConfig = [aiAnalysis |-> FALSE, apiKey |-> "", envKey |-> ""]
    /\ modelNames = <<>>
    /\ modelIdx = 1
    /\ aiTried = <<>>
    /\ lastError = <<>>
    /\ analysisText = <<>>
    /\ successfulModel = <<>>
    /\ aiError = <<>>
    /\ aiResult = [success |-> FALSE, error |-> <<>>, html |-> <<>>]
    /\ aiPc = "idle"

\* the call up to the loop over the models
CallGenerateAIAnalysis(config) ==
    /\ aiPc = "idle"
    /\ aiConfig' = config
    /\ IF ~config.aiAnalysis
       THEN /\ aiResult' = FailureResult(<<"AI analysis disabled">>, DisabledMessage)
            /\ aiPc' = "done"
            /\ UNCHANGED modelNames
       ELSE IF config.apiKey = "" /\ config.envKey = ""
       THEN /\ aiResult' = FailureResult(<<"API key not configured">>, NoKeyMessage)
            /\ aiPc' = "done"
            /\ UNCHANGED modelNames
       ELSE /\ modelNames' = ModelNames(config)
            /\ aiPc' = "loop"
            /\ UNCHANGED aiResult
    /\ UNCHANGED <<modelIdx, aiTried, lastError, analysisText, successfulModel, aiError>>

\* the call of the model returns a text: break
ModelReturns(text) ==
    /\ aiPc = "loop"
    /\ modelIdx <= Len(modelNames)
    /\ analysisText' = <<text>>
    /\ successfulModel' = <<modelNames[modelIdx]>>
    /\ aiTried' = Append(aiTried, [model |-> modelNames[modelIdx], threw |-> FALSE,
                                    nullish |-> FALSE, message |-> <<>>, text |-> text])
    /\ aiPc' = "after"
    /\ UNCHANGED <<aiConfig, modelNames, modelIdx, lastError, aiError, aiResult>>

\* the call of the model throws: continue, or throw to the outer catch
ModelThrows(msg) ==
    /\ aiPc = "loop"
    /\ modelIdx <= Len(modelNames)
    /\ lastError' = <<msg>>
    /\ aiTried' = Append(aiTried, [model |-> modelNames[modelIdx], threw |-> TRUE,
                                    nullish |-> FALSE, message |-> msg, text |-> ""])
    /\ IF ~IsNotFoundError(msg) /\ IsAuthError(msg)
       THEN /\ aiError' = msg
            /\ aiPc' = "catch"
            /\ UNCHANGED modelIdx
       ELSE /\ modelIdx' = modelIdx + 1
            /\ UNCHANGED <<aiError, aiPc>>
    /\ UNCHANGED <<aiConfig, modelNames, analysisText, successfulModel, aiResult>>

\* the message of the TypeError raised by reading a property of null
NullMessageError == <<"Cannot read properties of null">>

\* the call of the model throws null or undefined: reading modelError.message
\* in the handler raises a TypeError, which goes to the outer catch
ModelThrowsNull ==
    /\ aiPc = "loop"
    /\ modelIdx <= Len(modelNames)
    /\ lastError' = <<>>
    /\ aiTried' = Append(aiTried, [model |-> modelNames[modelIdx], threw |-> TRUE,
                                    nullish |-> TRUE, message |-> <<>>, text |-> ""])
    /\ aiError' = NullMessageError
    /\ aiPc' = "catch"
    /\ UNCHANGED <<aiConfig, modelNames, modelIdx, analysisText, successfulModel, aiResult>>

\* after the loop: if (!analysisText) throw, else the result of the analysis
AfterModels ==
    /\ \/ aiPc = "after"
       \/ aiPc = "loop" /\ modelIdx > Len(modelNames)
    /\ IF analysisText = <<>> \/ analysisText[1] = ""
       THEN /\ aiError' = AllFailedError(lastError, modelNames)
            /\ aiPc' = "catch"
            /\ UNCHANGED aiResult
       ELSE /\ aiResult' = [success |-> TRUE,
                             html |-> AnalysisHTML(analysisText[1], successfulModel[1]),
                             rawAnalysis |-> analysisText[1],
                             model |-> successfulModel[1]]
            /\ aiPc' = "done"
            /\ UNCHANGED aiError
    /\ UNCHANGED <<aiConfig, modelNames, modelIdx, aiTried, lastError, analysisText,
                   successfulModel>>

\* catch (error) { return { success: false, ... } }
CatchAIError ==
    /\ aiPc = "catch"
    /\ aiResult' = FailureResult(aiError, FailedMessage(aiError))
    /\ aiPc' = "done"
    /\ UNCHANGED <<aiConfig, modelNames, modelIdx, aiTried, lastError, analysisText,
                   successfulModel, aiError>>

NextAI ==
    \/ \E config \in AIConfigs : CallGenerateAIAnalysis(config)
    \/ \E text \in ModelTexts : ModelReturns(text)
    \/ \E msg \in ModelErrors : ModelThrows(msg)
    \/ ModelThrowsNull
    \/ AfterModels
    \/ CatchAIError

\* ------------------------------------------------------------------------
\* Specifications
\* ------------------------------------------------------------------------
\* ------------------------------------------------------------------------
\* extractUserConfiguration: the environment
\* ------------------------------------------------------------------------
\* 'azurewebsites.net'
AzureHost ==
    <<"a", "z", "u", "r", "e", "w", "e", "b", "s", "i", "t", "e", "s", ".", "n", "e", "t">>

\* the URLs of the model: 'app-ui-dev.azurewebsites.net/q',
\* 'app-qa.azurewebsites.net', 'web.azurewebsites.net' (the host is there, the
\* prefix 'app-' is not), 'app-.azurewebsites.net' (no token), 'app-x.io' and
\* the empty URL
UrlPool ==
    { <<"a", "p", "p", "-", "u", "i", "-", "d", "e", "v", ".">> \o AzureHost \o <<"/", "q">>,
      <<"a", "p", "p", "-", "q", "a", ".">> \o AzureHost,
      <<"w", "e", "b", ".">> \o AzureHost,
      <<"a", "p", "p", "-", ".">> \o AzureHost,
      <<"a", "p", "p", "-", "x", ".", "i", "o">>,
      <<>> }

\* the letters of the model in lower and in upper case
LowerLetters ==
    <<"a", "b", "d", "e", "i", "n", "o", "p", "q", "r", "s", "t", "u", "v", "w", "x", "z">>
UpperLetters ==
    <<"A", "B", "D", "E", "I", "N", "O", "P", "Q", "R", "S", "T", "U", "V", "W", "X", "Z">>

\* \w: a letter, a digit or '_'
IsWordChar(c) ==
    \/ \E j \in 1..Len(LowerLetters) : c = LowerLetters[j] \/ c = UpperLetters[j]
    \/ c \in DigitChars
    \/ c = "_"

\* String.prototype.toUpperCase
ToUpperCase(s) ==
    [k \in 1..Len(s) |->
        IF \E j \in 1..Len(LowerLetters) : s[k] = LowerLetters[j]
        THEN UpperLetters[CHOOSE j \in 1..Len(LowerLetters) : s[k] = LowerLetters[j]]
        ELSE s[k]]

\* the text has the given text at position k
HasAt(s, k, sub) ==
    k >= 1 /\ k + Len(sub) - 1 <= Len(s) /\ \A j \in 1..Len(sub) : s[k + j - 1] = sub[j]

\* last position of the longest run of word characters that starts at
\* position k (k - 1 if there is none)
WordRunEnd(s, k) ==
    CHOOSE e \in (k - 1)..Len(s) :
        /\ \A j \in k..e : IsWordChar(s[j])
        /\ e = Len(s) \/ ~IsWordChar(s[e + 1])

\* (\w+)\.azurewebsites\.net tried at position k: <<>> if it does not match
\* there, else <<the text of the group>>; the group can only end where '.'
\* follows, that is at the end of the run of word characters
CaptureAt(s, k) ==
    IF k <= Len(s) /\ WordRunEnd(s, k) >= k
          /\ HasAt(s, WordRunEnd(s, k) + 1, <<".">> \o AzureHost)
    THEN <<SubSeq(s, k, WordRunEnd(s, k))>>
    ELSE <<>>

\* reportConfig?.environment?.urlPattern || 'app-(?:ui-)?(\\w+)\\.azurewebsites\\.net'
DefaultUrlPattern == "app-(?:ui-)?(\\w+)\\.azurewebsites\\.net"

\* a configured pattern that takes any host
HostUrlPattern == "(\\w+)\\.azurewebsites\\.net"

\* reportConfig.environment: absent, or with the pattern for any host
EnvironmentChoices == {EmptyMap, [urlPattern |-> HostUrlPattern]}

UrlPatternOf(environment) ==
    IF "urlPattern" \in DOMAIN environment THEN environment.urlPattern
    ELSE DefaultUrlPattern

\* the pattern tried at position k of the URL: with the default pattern
\* 'app-', then 'ui-' if the rest matches after it, then the group
PatternAt(url, k, urlPattern) ==
    IF urlPattern = HostUrlPattern THEN CaptureAt(url, k)
    ELSE IF ~HasAt(url, k, <<"a", "p", "p", "-">>) THEN <<>>
    ELSE IF HasAt(url, k + 4, <<"u", "i", "-">>) /\ CaptureAt(url, k + 7) # <<>>
         THEN CaptureAt(url, k + 7)
    ELSE CaptureAt(url, k + 4)

\* sample.url.match(envRegex): <<>> is null, else <<envMatch[1]>>, the group
\* of the leftmost match
EnvMatch(url, urlPattern) ==
    LET at == {k \in 1..Len(url) : PatternAt(url, k, urlPattern) # <<>>}
    IN IF at = {} THEN <<>>
       ELSE PatternAt(url, CHOOSE k \in at : \A j \in at : k <= j, urlPattern)

\* 'Unknown'
UnknownEnvironment == <<"U", "n", "k", "n", "o", "w", "n">>

\* the sample ends the search after a URL with the host whether or not the
\* pattern matched it
EnvironmentOfFirstHost(urls, urlPattern) ==
    LET hits == {k \in 1..Len(urls) : Len(urls[k]) > 0 /\ Includes(urls[k], AzureHost)}
        first == CHOOSE k \in hits : \A j \in hits : k <= j
    IN IF hits = {} \/ EnvMatch(urls[first], urlPattern) = <<>> THEN UnknownEnvironment
       ELSE ToUpperCase(EnvMatch(urls[first], urlPattern)[1])

\* config.environment: the loop over the samples ends at the first sample
\* whose URL has the host and is matched by the pattern with a group that is
\* not empty; there is no loop when there are no samples
EnvironmentOf(urls, urlPattern) ==
    LET hits == {k \in 1..Len(urls) :
                    /\ Len(urls[k]) > 0
                    /\ Includes(urls[k], AzureHost)
                    /\ EnvMatch(urls[k], urlPattern) # <<>>
                    /\ Len(EnvMatch(urls[k], urlPattern)[1]) > 0}
    IN IF hits = {} THEN UnknownEnvironment
       ELSE ToUpperCase(EnvMatch(urls[CHOOSE k \in hits : \A j \in hits : k <= j],
                                 urlPattern)[1])

InitEnvironment ==
    /\ envUrls = <<>>
    /\ envConfig = EmptyMap
    /\ envResult = UnknownEnvironment
    /\ envPc = "collect"

\* one more sample with the URL
AddUrl(url) ==
    /\ envPc = "collect"
    /\ Len(envUrls) < MaxUrls
    /\ envUrls' = Append(envUrls, url)
    /\ UNCHANGED <<envConfig, envResult, envPc>>

CallExtractEnvironment(environment) ==
    /\ envPc = "collect"
    /\ envConfig' = environment
    /\ envResult' = EnvironmentOf(envUrls, UrlPatternOf(environment))
    /\ envPc' = "done"
    /\ UNCHANGED envUrls

NextEnvironment ==
    \/ \E url \in UrlPool : AddUrl(url)
    \/ \E environment \in EnvironmentChoices : CallExtractEnvironment(environment)

\* ------------------------------------------------------------------------
\* The specifications
\* ------------------------------------------------------------------------
Init ==
    /\ InitParse /\ InitStats /\ InitThreads /\ InitTokenizer /\ InitErrors /\ InitAI
    /\ InitEnvironment

Next == NextParse /\ UNCHANGED <<statVars, threadVars, tokVars, errVars, aiVars, envVars>>

\* a file is written and parsed twice
Spec == Init /\ [][Next]_vars

NextStatsOnly == NextStats /\ UNCHANGED <<fileVars, threadVars, tokVars, errVars, aiVars, envVars>>

\* a list is built and given to calculateStatistics
SpecStats == Init /\ [][NextStatsOnly]_vars

NextThreadsOnly == NextThreads /\ UNCHANGED <<fileVars, statVars, tokVars, errVars, aiVars, envVars>>

\* samples are collected and the threads of a user type are counted
SpecThreads == Init /\ [][NextThreadsOnly]_vars

NextTokenizerOnly == NextTokenizer /\ UNCHANGED <<fileVars, statVars, threadVars, errVars, aiVars, envVars>>

\* a line is typed and given to parseCSVLine
SpecTokenizer == Init /\ [][NextTokenizerOnly]_vars

NextErrorsOnly == NextErrors /\ UNCHANGED <<fileVars, statVars, threadVars, tokVars, aiVars, envVars>>

\* error records are collected and given to analyzeErrors
SpecErrors == Init /\ [][NextErrorsOnly]_vars

NextAIOnly == NextAI /\ UNCHANGED <<fileVars, statVars, threadVars, tokVars, errVars, envVars>>

\* generateAIAnalysis is called with a config and the model calls return or throw
SpecAI == Init /\ [][NextAIOnly]_vars

NextEnvironmentOnly ==
    NextEnvironment /\ UNCHANGED <<fileVars, statVars, threadVars, tokVars, errVars, aiVars>>

\* URLs are collected and the environment is taken from them
SpecEnvironment == Init /\ [][NextEnvironmentOnly]_vars

\* ------------------------------------------------------------------------
\* Properties of the parse
\* ------------------------------------------------------------------------
\* the groups exist as soon as the row loop runs
Parsing == pc \in {"loop", "catch", "done"}

\* the accepted rows that are transaction controllers / requests
IsControllerSample(s) == s.dataType = "" /\ HasMarker(s.responseMessage)
IsRequestSample(s) ==
    (s.dataType # "" \/ (s.url # "" /\ s.url # "null")) /\ ~IsControllerSample(s)

\* the count declared by a controller row: the digits that follow the first
\* 'Number of samples in transaction', optional spaces, ':' and optional
\* spaces; 0 when there is no such text
DeclaredCount(msg) ==
    LET starts == {k \in 1..Len(msg) :
                     /\ msg[k] = Marker
                     /\ \E c \in (k + 1)..Len(msg), d \in (k + 2)..Len(msg) :
                          /\ c < d
                          /\ msg[c] = ":"
                          /\ msg[d] \in DigitChars
                          /\ \A j \in ((k + 1)..(d - 1)) \ {c} : msg[j] = " "}
    IN IF starts = {} THEN 0
       ELSE LET k == CHOOSE k \in starts : \A j \in starts : k <= j
                d == CHOOSE d \in (k + 2)..Len(msg) :
                        msg[d] \in DigitChars /\ \A j \in (k + 1)..(d - 1) : msg[j] \notin DigitChars
                e == CHOOSE e \in d..Len(msg) :
                        /\ \A j \in d..e : msg[j] \in DigitChars
                        /\ (e = Len(msg) \/ msg[e + 1] \notin DigitChars)
            IN DigitsToInt(SubSeq(msg, d, e))

\* C1: after any prefix of the log, every execution of every group holds at
\* most as many captured children as its controller row declares, the declared
\* count being 0 when the row declares none
ChildCaptureBound ==
    Parsing =>
        \A n \in DOMAIN transactions :
            \A k \in 1..Len(transactions[n].samples) :
                Len(transactions[n].childRequestsByExecution[k])
                    <= DeclaredCount(transactions[n].samples[k].responseMessage)

\* an execution has captured as many children as declared and a further request
\* row has been processed right after its last child
ChildCaptureBoundWitness ==
    /\ pc = "loop"
    /\ \E n \in DOMAIN transactions : \E k \in 1..Len(transactions[n].samples) :
         LET ch == transactions[n].childRequestsByExecution[k]
         IN /\ Len(ch) >= 1
            /\ Len(ch) = DeclaredCount(transactions[n].samples[k].responseMessage)
            /\ \E q \in 1..Len(allSamples) :
                 IsRequestSample(allSamples[q]) /\ allSamples[q].row = ch[Len(ch)].row + 1

\* the row of the first controller row after row r (past the last line if none)
NextControllerRow(r) ==
    LET later == {allSamples[q].row : q \in {q \in 1..Len(allSamples) :
                     allSamples[q].row > r /\ IsControllerSample(allSamples[q])}}
    IN IF later = {} THEN Len(lines) + 1
       ELSE CHOOSE m \in later : \A o \in later : m <= o

\* the request rows between the controller row r and the next controller row
SpanRequests(r) ==
    SelectIdx(allSamples,
              {q \in 1..Len(allSamples) :
                  /\ allSamples[q].row > r
                  /\ allSamples[q].row < NextControllerRow(r)
                  /\ IsRequestSample(allSamples[q])}, 1)

\* C2: the children of every execution are exactly the first min(N, k) request
\* rows, in log order, between its controller row and the next controller row
\* or the end of the log, N being the declared count and k the number of
\* request rows in that span
ChildrenAreSpanPrefix ==
    Parsing =>
        \A n \in DOMAIN transactions :
            \A k \in 1..Len(transactions[n].samples) :
                LET c == transactions[n].samples[k]
                    span == SpanRequests(c.row)
                IN transactions[n].childRequestsByExecution[k]
                     = SubSeq(span, 1, Min2(DeclaredCount(c.responseMessage), Len(span)))

\* the same for the groups whose name is not the empty string
NamedChildrenAreSpanPrefix ==
    Parsing =>
        \A n \in DOMAIN transactions \ {""} :
            \A k \in 1..Len(transactions[n].samples) :
                LET c == transactions[n].samples[k]
                    span == SpanRequests(c.row)
                IN transactions[n].childRequestsByExecution[k]
                     = SubSeq(span, 1, Min2(DeclaredCount(c.responseMessage), Len(span)))

HeaderHas(file, column) == \E k \in 1..Len(file[1]) : file[1][k] = column

\* C4: the parse returns null when the file has fewer than two non-blank lines
\* or its header lacks the label or the elapsed column, and no exception
\* leaves parseJMeterResults
NullOnMalformedFile ==
    /\ pc # "escaped"
    /\ (pc = "done"
        /\ (\/ Len(NonBlank(csv)) < 2
            \/ ~HeaderHas(NonBlank(csv), "label")
            \/ ~HeaderHas(NonBlank(csv), "elapsed")))
       => result = NullResult

\* a file with data rows under a header without the label column has been parsed
NullOnMalformedFileWitness ==
    /\ pc = "done"
    /\ Len(NonBlank(csv)) >= 2
    /\ ~HeaderHas(NonBlank(csv), "label")
    /\ result = NullResult

\* the row has too few fields to contain both the label and the elapsed column
IsShortRow(values, header) ==
    \/ Len(values) < IndexOf(header, "label") + 1
    \/ Len(values) < IndexOf(header, "elapsed") + 1

\* C5: a row with too few fields changes nothing but the position in the file
ShortRowHasNoEffect ==
    [][(InLoop /\ IsShortRow(lines[i + 1], lines[1]))
        => UNCHANGED <<samples, transactions, allSamples, errors, minTimestamp,
                       maxTimestamp, totalSuccessCount, totalErrorCount,
                       currentTransaction, currentTransactionExecutionIndex,
                       expectedChildRequestCount, collectedChildRequestCount,
                       pc, result>>]_vars

\* a short row has been passed while an execution was capturing, and the next
\* request row has been captured by that execution
ShortRowHasNoEffectWitness ==
    /\ pc = "loop"
    /\ \E k \in 2..i :
         /\ IsShortRow(lines[k], lines[1])
         /\ \E n \in DOMAIN transactions : \E e \in 1..Len(transactions[n].samples) :
              /\ transactions[n].samples[e].row = k - 1
              /\ Len(transactions[n].childRequestsByExecution[e]) = 1
              /\ transactions[n].childRequestsByExecution[e][1].row = k + 1

\* the accepted rows that failed and are requests, in log order
FailedRequestRows ==
    SelectIdx(allSamples,
              {q \in 1..Len(allSamples) :
                  ~allSamples[q].success /\ IsRequestSample(allSamples[q])}, 1)

\* C14: after any sequence of rows the error list holds, in log order, one
\* record per accepted row that is non-success, not a transaction controller
\* and a request, and nothing else (so none for a controller row or a
\* successful row); the record carries the label, responseCode,
\* responseMessage and failureMessage of its row
ErrorsComeFromFailedRequests ==
    Parsing =>
        /\ Len(errors) = Len(FailedRequestRows)
        /\ \A k \in 1..Len(errors) :
             /\ DOMAIN errors[k] = {"label", "responseCode", "responseMessage", "failureMessage"}
             /\ errors[k].label = FailedRequestRows[k].label
             /\ errors[k].responseCode = FailedRequestRows[k].responseCode
             /\ errors[k].responseMessage = FailedRequestRows[k].responseMessage
             /\ errors[k].failureMessage = FailedRequestRows[k].failureMessage

\* a failed controller row, a successful request row and a failed request row
\* with a failure message have been processed, and the one error record is
\* that of the failed request
ErrorsComeFromFailedRequestsWitness ==
    /\ pc = "loop"
    /\ Len(allSamples) = 3
    /\ IsControllerSample(allSamples[1]) /\ ~allSamples[1].success
    /\ IsRequestSample(allSamples[2]) /\ allSamples[2].success
    /\ IsRequestSample(allSamples[3]) /\ ~allSamples[3].success
    /\ Len(errors) = 1
    /\ errors[1].failureMessage = "boom"

\* the row of the controller row processed last (0 if there is none)
LatestControllerRow ==
    LET rows == {allSamples[q].row : q \in {q \in 1..Len(allSamples) :
                    IsControllerSample(allSamples[q])}}
    IN IF rows = {} THEN 0 ELSE CHOOSE m \in rows : \A o \in rows : m >= o

\* the execution k of group n can no longer receive children: a later
\* controller row has been processed, or it holds its declared count
ExecutionClosed(n, k) ==
    \/ transactions[n].samples[k].row # LatestControllerRow
    \/ Len(transactions[n].childRequestsByExecution[k])
          >= DeclaredCount(transactions[n].samples[k].responseMessage)

\* C16: during the pass, the child list of an execution that has been
\* superseded by a later controller row or has collected its declared count
\* does not change any more; a controller row changes no child list; and the
\* flat child list of a group changes only with one of its executions (so no
\* row is captured after the quota is filled until the next controller row)
ClosedExecutionsKeepChildren ==
    [][(pc \in {"loop", "catch"}) =>
         \A n \in DOMAIN transactions :
             /\ n \in DOMAIN transactions'
             /\ \A k \in 1..Len(transactions[n].samples) :
                  (ExecutionClosed(n, k) \/ samples' # samples) =>
                      transactions'[n].childRequestsByExecution[k]
                          = transactions[n].childRequestsByExecution[k]
             /\ ((\A k \in 1..Len(transactions[n].samples) : ExecutionClosed(n, k))
                  \/ samples' # samples) =>
                      transactions'[n].childRequests = transactions[n].childRequests]_vars

\* a group with two executions: the first, superseded before it had its
\* declared count, holds no child, and the second has captured the request
\* row that followed its controller row
ClosedExecutionsKeepChildrenWitness ==
    /\ pc = "loop"
    /\ \E n \in DOMAIN transactions :
         /\ Len(transactions[n].samples) = 2
         /\ DeclaredCount(transactions[n].samples[1].responseMessage) = 2
         /\ Len(transactions[n].childRequestsByExecution[1]) = 0
         /\ Len(transactions[n].childRequestsByExecution[2]) = 1
         /\ transactions[n].childRequestsByExecution[2][1].row
              = transactions[n].samples[2].row + 1

\* the execution started last holds at least its declared count of children
LatestExecutionFull ==
    /\ LatestControllerRow > 0
    /\ \E n \in DOMAIN transactions :
         LET k == Len(transactions[n].samples)
         IN /\ k >= 1
            /\ transactions[n].samples[k].row = LatestControllerRow
            /\ Len(transactions[n].childRequestsByExecution[k])
                 >= DeclaredCount(transactions[n].samples[k].responseMessage)

IsCaptured(row) ==
    \E n \in DOMAIN transactions : \E k \in 1..Len(transactions[n].childRequestsByExecution) :
        \E c \in 1..Len(transactions[n].childRequestsByExecution[k]) :
            transactions[n].childRequestsByExecution[k][c].row = row

InControllerList(row) == \E k \in 1..Len(samples) : samples[k].row = row

IsFailedRequest(s) ==
    ~s.success /\ (s.dataType # "" \/ (s.url # "" /\ s.url # "null")) /\ ~IsControllerSample(s)
IsSuccess(s) == s.success
IsFailedOther(s) ==
    ~s.success /\ (IsControllerSample(s) \/ (s.dataType = "" /\ s.url \in {"", "null"}))

\* the number of accepted rows of each kind
FailedRequestRowCount == Cardinality({q \in 1..Len(allSamples) : IsFailedRequest(allSamples[q])})

SuccessRowCount == Cardinality({q \in 1..Len(allSamples) : IsSuccess(allSamples[q])})

FailedOtherRowCount == Cardinality({q \in 1..Len(allSamples) : IsFailedOther(allSamples[q])})

\* C19: totalErrorCount is the number of accepted rows that failed, are
\* IndividualRequests and not controllers; totalSuccessCount is the number of
\* accepted rows with success = true of any kind; failed controller rows and
\* failed rows that are neither count toward neither tally; the result
\* reports these tallies
TalliesCountRows ==
    /\ Parsing =>
          /\ totalErrorCount = FailedRequestRowCount
          /\ totalSuccessCount = SuccessRowCount
          /\ totalErrorCount + totalSuccessCount = Len(allSamples) - FailedOtherRowCount
    /\ (pc = "done" /\ ~result.isNull) =>
          /\ result.totalErrorCount = FailedRequestRowCount
          /\ result.totalSuccessCount = SuccessRowCount
          /\ result.totalRequests = FailedRequestRowCount + SuccessRowCount

\* the result of a file with a successful controller row, a failed controller
\* row and a failed row that is neither a controller nor a request: one
\* success and no error
TalliesCountRowsWitness ==
    /\ pc = "done" /\ ~result.isNull
    /\ Len(allSamples) = 3
    /\ \E a, b, c \in 1..3 :
         /\ IsControllerSample(allSamples[a]) /\ allSamples[a].success
         /\ IsControllerSample(allSamples[b]) /\ ~allSamples[b].success
         /\ ~IsControllerSample(allSamples[c]) /\ IsFailedOther(allSamples[c])
    /\ result.totalSuccessCount = 1
    /\ result.totalErrorCount = 0

\* the rows of the controller rows with the label, in log order
ControllerRowsOf(label) ==
    SelectIdx([q \in 1..Len(allSamples) |-> allSamples[q].row],
              {q \in 1..Len(allSamples) :
                  IsControllerSample(allSamples[q]) /\ allSamples[q].label = label}, 1)

RECURSIVE SumOfExecutions(_, _)
SumOfExecutions(tx, names) ==
    IF names = {} THEN 0
    ELSE LET n == CHOOSE n \in names : TRUE
         IN Len(tx[n].samples) + SumOfExecutions(tx, names \ {n})

\* the groups hold, in log order, the controller rows of the given labels
GroupsHoldControllerRows(labels) ==
    \A lb \in labels :
        /\ lb \in DOMAIN transactions
        /\ [k \in 1..Len(transactions[lb].samples) |-> transactions[lb].samples[k].row]
             = ControllerRowsOf(lb)
        /\ Len(transactions[lb].childRequestsByExecution) = Len(transactions[lb].samples)

\* C20: after any prefix of the log every controller row is an execution of
\* the group of its label: the executions of a group are the controller rows
\* with its label, in log order (so the index of a new execution is the
\* count before it), the index of the execution started last is that count,
\* and the number of controller rows (the reported total) is the sum of the
\* execution counts of the groups
GroupsCountControllerRows ==
    Parsing =>
        /\ GroupsHoldControllerRows({allSamples[q].label : q \in {q \in 1..Len(allSamples) :
                                         IsControllerSample(allSamples[q])}})
        /\ \A n \in DOMAIN transactions : Len(ControllerRowsOf(n)) >= 1
        /\ (Len(allSamples) > 0 /\ IsControllerSample(allSamples[Len(allSamples)])) =>
               currentTransactionExecutionIndex
                   = Len(ControllerRowsOf(allSamples[Len(allSamples)].label)) - 1
        /\ Len(samples) = SumOfExecutions(transactions, DOMAIN transactions)
        /\ (pc = "done" /\ ~result.isNull) =>
               result.totalSamples = SumOfExecutions(transactions, DOMAIN transactions)

\* the same when no controller row has a label that names a property
\* inherited from Object.prototype
GroupsCountControllerRowsUnlessInherited ==
    (Parsing /\ \A q \in 1..Len(allSamples) :
                    IsControllerSample(allSamples[q]) => allSamples[q].label \notin PrototypeKeys) =>
        /\ GroupsHoldControllerRows({allSamples[q].label : q \in {q \in 1..Len(allSamples) :
                                         IsControllerSample(allSamples[q])}})
        /\ \A n \in DOMAIN transactions : Len(ControllerRowsOf(n)) >= 1
        /\ (Len(allSamples) > 0 /\ IsControllerSample(allSamples[Len(allSamples)])) =>
               currentTransactionExecutionIndex
                   = Len(ControllerRowsOf(allSamples[Len(allSamples)].label)) - 1
        /\ Len(samples) = SumOfExecutions(transactions, DOMAIN transactions)
        /\ (pc = "done" /\ ~result.isNull) =>
               result.totalSamples = SumOfExecutions(transactions, DOMAIN transactions)

\* ------------------------------------------------------------------------
\* Properties of calculateStatistics
\* ------------------------------------------------------------------------
\* C6: the statistics of a group are ordered: min <= avg <= max and
\* p90 <= p95 <= p99 <= max (the list stands for the elapsed times of the
\* controller rows of the group)
StatisticsOrdered ==
    statPc = "done" =>
        /\ statResult.min <= statResult.avg
        /\ statResult.avg <= statResult.max
        /\ statResult.p90 <= statResult.p95
        /\ statResult.p95 <= statResult.p99
        /\ statResult.p99 <= statResult.max

\* statistics of an unsorted list in which the average lies strictly between
\* the extremes, p90 below p95 and p99 below the maximum
StatisticsOrderedWitness ==
    /\ statPc = "done"
    /\ \E k \in 1..(Len(statInput) - 1) : statInput[k] > statInput[k + 1]
    /\ statResult.min < statResult.avg
    /\ statResult.avg < statResult.max
    /\ statResult.p90 < statResult.p95
    /\ statResult.p99 < statResult.max

\* the number of elements of the list below v / not above v
CountBelow(list, v) == Cardinality({j \in 1..Len(list) : list[j] < v})
CountUpTo(list, v) == Cardinality({j \in 1..Len(list) : list[j] <= v})

\* v is the element at the 0-based index idx of the list sorted ascending
IsSortedElement(list, idx, v) ==
    /\ \E j \in 1..Len(list) : list[j] = v
    /\ CountBelow(list, v) <= idx
    /\ idx < CountUpTo(list, v)

\* max(0, ceil(p * N / 100) - 1)
PercentileIndex(p, n) ==
    LET c == CHOOSE c \in 0..n : 100 * c >= p * n /\ 100 * (c - 1) < p * n
    IN IF c - 1 < 0 THEN 0 ELSE c - 1

\* C7: all zeros for the empty list; otherwise min and max are the smallest
\* and the largest value, avg is the mean rounded to a nearest integer, each
\* percentile is the element at index max(0, ceil(p*N/100) - 1) of the sorted
\* list, and the list of the caller is left as it was
StatisticsValues ==
    statPc = "done" =>
        /\ statValues = statInput
        /\ IF Len(statInput) = 0
           THEN statResult = [min |-> 0, max |-> 0, avg |-> 0, p90 |-> 0, p95 |-> 0, p99 |-> 0]
           ELSE LET n == Len(statInput)
                IN /\ IsSortedElement(statInput, 0, statResult.min)
                   /\ IsSortedElement(statInput, n - 1, statResult.max)
                   /\ 2 * n * statResult.avg - 2 * SumSeq(statInput) <= n
                   /\ 2 * SumSeq(statInput) - 2 * n * statResult.avg <= n
                   /\ IsSortedElement(statInput, PercentileIndex(90, n), statResult.p90)
                   /\ IsSortedElement(statInput, PercentileIndex(95, n), statResult.p95)
                   /\ IsSortedElement(statInput, PercentileIndex(99, n), statResult.p99)

\* statistics of an unsorted list of 100 values whose mean is not an integer
\* and whose three percentiles are not all the maximum
StatisticsValuesWitness ==
    /\ statPc = "done"
    /\ Len(statInput) = 100
    /\ \E k \in 1..(Len(statInput) - 1) : statInput[k] > statInput[k + 1]
    /\ statResult.avg * Len(statInput) # SumSeq(statInput)
    /\ statResult.p90 < statResult.p99
    /\ statResult.p99 < statResult.max

\* ------------------------------------------------------------------------
\* Properties of the finalized groups
\* ------------------------------------------------------------------------
\* the number of executions of the group whose controller row failed
FailedExecutions(t) == Cardinality({k \in 1..Len(t.samples) : ~t.samples[k].success})

\* C8: every group has at least one execution, and its errorRate is the share
\* of executions with a failed controller row, times 100, rounded to two
\* decimals, between 0 and 100 (errorRate counts hundredths)
ErrorRateOfGroups ==
    /\ Parsing => \A n \in DOMAIN transactions : Len(transactions[n].samples) >= 1
    /\ (pc = "done" /\ ~result.isNull) =>
           \A n \in DOMAIN result.transactions :
               LET t == result.transactions[n]
                   total == Len(t.samples)
               IN /\ t.errorRate >= 0
                  /\ t.errorRate <= 10000
                  /\ 2 * (t.errorRate * total - FailedExecutions(t) * 10000) <= total
                  /\ 2 * (FailedExecutions(t) * 10000 - t.errorRate * total) <= total

\* a group with three executions of which two failed: 66.67
ErrorRateOfGroupsWitness ==
    /\ pc = "done" /\ ~result.isNull
    /\ \E n \in DOMAIN result.transactions :
         /\ Len(result.transactions[n].samples) = 3
         /\ FailedExecutions(result.transactions[n]) = 2
         /\ result.transactions[n].errorRate = 6667

\* ------------------------------------------------------------------------
\* Properties of countThreadInstances
\* ------------------------------------------------------------------------
\* the names or patterns that select the samples of the counted user type
NeedlesOf(userType, groupNames) ==
    IF Len(groupNames) > 0 THEN groupNames
    ELSE IF "threadGroupPatterns" \in DOMAIN userType THEN userType.threadGroupPatterns
    ELSE <<userType.displayName>>

\* the thread names of the samples that match the user type
MatchedNames ==
    {thSamples[k].threadName : k \in {k \in 1..Len(thSamples) :
        /\ Len(thSamples[k].threadName) > 0
        /\ \E q \in 1..Len(NeedlesOf(thUserType, thGroupNames)) :
             Includes(thSamples[k].threadName, NeedlesOf(thUserType, thGroupNames)[q])}}

\* C9: a user type with at least one matching sample has a thread count of at
\* least 1
ThreadCountAtLeastOne ==
    (thPc = "done" /\ MatchedNames # {}) => thCount >= 1

\* the name ends with '-' and the number 0
EndsWithThreadZero(name) ==
    /\ Len(name) >= 2
    /\ name[Len(name)] = "0"
    /\ name[Len(name) - 1] \in {"-", " "}

\* the same for user types none of whose matched names ends with the number 0
ThreadCountAtLeastOneUnlessZero ==
    (thPc = "done" /\ MatchedNames # {} /\ \A n \in MatchedNames : ~EndsWithThreadZero(n))
        => thCount >= 1

\* position of the first character of the trailing '<number>-<number>' of a
\* name (0 if the name does not end that way or has nothing before it)
SuffixStart(name) ==
    LET t == DigitRunStart(name, Len(name))
    IN IF t > Len(name) \/ t < 3 \/ name[t - 1] # "-" THEN 0
       ELSE LET f == DigitRunStart(name, t - 2)
            IN IF f > t - 2 \/ f < 2 THEN 0 ELSE f

\* the group of a name with such a suffix: what precedes the suffix, without
\* the white space around it
PrefixGroup(name) == Trim(SubSeq(name, 1, SuffixStart(name) - 1))

\* the number after the last '-'
TrailingNumber(name) ==
    DigitsToInt(SubSeq(name, DigitRunStart(name, Len(name)), Len(name)))

\* the largest trailing number among the names of a group
LargestInGroup(names, g) ==
    LET nums == {TrailingNumber(n) : n \in {n \in names : PrefixGroup(n) = g}}
    IN CHOOSE m \in nums : \A o \in nums : m >= o

RECURSIVE SumOfLargest(_, _)
SumOfLargest(names, groups) ==
    IF groups = {} THEN 0
    ELSE LET g == CHOOSE g \in groups : TRUE
         IN LargestInGroup(names, g) + SumOfLargest(names, groups \ {g})

\* C10: when the matched names all end with '<number>-<number>', the count is
\* the sum over the groups (the prefixes before that suffix) of the largest
\* trailing thread number of the group
CountIsSumOfGroupMaxima ==
    (thPc = "done" /\ MatchedNames # {} /\ \A n \in MatchedNames : SuffixStart(n) > 0)
        => thCount = SumOfLargest(MatchedNames, {PrefixGroup(n) : n \in MatchedNames})

\* two groups, one of them with a thread number above the number of its names
CountIsSumOfGroupMaximaWitness ==
    /\ thPc = "done"
    /\ MatchedNames # {}
    /\ \A n \in MatchedNames : SuffixStart(n) > 0
    /\ Cardinality({PrefixGroup(n) : n \in MatchedNames}) = 2
    /\ thCount > Cardinality(MatchedNames)

\* ------------------------------------------------------------------------
\* Properties of parseCSVLine
\* ------------------------------------------------------------------------
\* the character put in front of the first field of a list of fields
PrependChar(c, flds) == <<<<c>> \o flds[1]>> \o Tail(flds)

\* the fields of a text read from the left, the text starting inside a quoted
\* region or outside: a doubled quote inside a quoted region is one quote
\* character of the field, any other quote changes the region and is dropped,
\* a comma outside quoted regions ends the field, and every other character
\* belongs to the field
RECURSIVE SplitOutsideQuotes(_, _)
SplitOutsideQuotes(text, quoted) ==
    IF Len(text) = 0 THEN <<<<>>>>
    ELSE IF quoted /\ Len(text) >= 2 /\ text[1] = Quote /\ text[2] = Quote
    THEN PrependChar(Quote, SplitOutsideQuotes(SubSeq(text, 3, Len(text)), TRUE))
    ELSE IF text[1] = Quote
    THEN SplitOutsideQuotes(Tail(text), ~quoted)
    ELSE IF text[1] = Comma /\ ~quoted
    THEN <<<<>>>> \o SplitOutsideQuotes(Tail(text), FALSE)
    ELSE PrependChar(text[1], SplitOutsideQuotes(Tail(text), quoted))

\* C11: parseCSVLine returns the fields obtained by splitting the line at the
\* commas outside double quotes (doubled quotes inside a quoted region give
\* one quote, other quotes are dropped, an open quote runs to the end of the
\* line); it returns at least one field and raises nothing
TokenizerSplitsOutsideQuotes ==
    /\ tokPc \in {"type", "scan", "done"}
    /\ tokPc = "done" =>
          /\ fields = SplitOutsideQuotes(line, FALSE)
          /\ Len(fields) >= 1

\* the line "a,""b"",c" has been split into the one field a,"b",c
TokenizerSplitsOutsideQuotesWitness ==
    /\ tokPc = "done"
    /\ line = ScenarioLine
    /\ fields = <<<<"a", Comma, Quote, "b", Quote, Comma, "c">>>>

\* ------------------------------------------------------------------------
\* Properties of analyzeErrors
\* ------------------------------------------------------------------------
\* the response code of a record, 'Unknown' for a record without one
CodeOrUnknown(e) == IF e.responseCode = "" THEN "Unknown" ELSE e.responseCode

\* the number of records of the list with the response code / the label
RecordsWithCode(list, code) ==
    Cardinality({k \in 1..Len(list) : CodeOrUnknown(list[k]) = code})
RecordsWithLabel(list, lb) ==
    Cardinality({k \in 1..Len(list) : list[k].label = lb})

RECURSIVE SumOfCounts(_, _)
SumOfCounts(byType, codes) ==
    IF codes = {} THEN 0
    ELSE LET c == CHOOSE c \in codes : TRUE
         IN byType[c].count + SumOfCounts(byType, codes \ {c})

\* C12: hasErrors tells whether the list is non-empty, totalErrors is its
\* length, errorsByType has one entry per distinct response code ('Unknown'
\* for records without one) holding the number of records of that code, and
\* the counts of the entries add up to totalErrors
ErrorTypesCoverAllRecords ==
    errPc = "done" =>
        /\ errResult.hasErrors = (Len(errList) > 0)
        /\ errResult.totalErrors = Len(errList)
        /\ DOMAIN errResult.errorsByType
             = {CodeOrUnknown(errList[k]) : k \in 1..Len(errList)}
        /\ \A c \in DOMAIN errResult.errorsByType :
             /\ errResult.errorsByType[c].code = c
             /\ errResult.errorsByType[c].count = RecordsWithCode(errList, c)
        /\ SumOfCounts(errResult.errorsByType, DOMAIN errResult.errorsByType)
             = errResult.totalErrors

\* the same for the lists without a response code that names a property
\* inherited from Object.prototype
ErrorTypesCoverAllRecordsUnlessInherited ==
    (errPc = "done" /\ \A k \in 1..Len(errList) : errList[k].responseCode \notin PrototypeKeys) =>
        /\ errResult.hasErrors = (Len(errList) > 0)
        /\ errResult.totalErrors = Len(errList)
        /\ DOMAIN errResult.errorsByType
             = {CodeOrUnknown(errList[k]) : k \in 1..Len(errList)}
        /\ \A c \in DOMAIN errResult.errorsByType :
             /\ errResult.errorsByType[c].code = c
             /\ errResult.errorsByType[c].count = RecordsWithCode(errList, c)
        /\ SumOfCounts(errResult.errorsByType, DOMAIN errResult.errorsByType)
             = errResult.totalErrors

\* the position at which the label is first encountered in the list
FirstEncounter(list, lb) ==
    CHOOSE k \in 1..Len(list) : list[k].label = lb /\ \A j \in 1..(k - 1) : list[j].label # lb

\* the top list holds min(5, number of labels) entries of distinct labels with
\* their counts, sorted by count descending, no label left out having a larger
\* count than a label of the list
TopSamplersAreTheMostFrequent(list, top) ==
    LET labels == {list[k].label : k \in 1..Len(list)}
    IN /\ Len(top) = Min2(5, Cardinality(labels))
       /\ \A a \in 1..Len(top) :
            /\ top[a].sampler \in labels
            /\ top[a].count = RecordsWithLabel(list, top[a].sampler)
            /\ \A b \in (a + 1)..Len(top) :
                 /\ top[a].sampler # top[b].sampler
                 /\ top[a].count >= top[b].count
            /\ \A lb \in labels \ {top[b].sampler : b \in 1..Len(top)} :
                 top[a].count >= RecordsWithLabel(list, lb)

\* entries with equal counts are in the order of first encounter
TiesInOrderOfFirstEncounter(list, top) ==
    \A a \in 1..Len(top) : \A b \in (a + 1)..Len(top) :
        top[a].count = top[b].count
            => FirstEncounter(list, top[a].sampler) < FirstEncounter(list, top[b].sampler)

\* C13: topErrorsBySampler holds min(5, number of distinct labels) entries,
\* one per label with the error count of the label, sorted by count
\* descending and containing the labels with the highest counts; labels with
\* equal counts appear in the order in which they were first encountered
TopSamplersInOrder ==
    errPc = "done" =>
        /\ TopSamplersAreTheMostFrequent(errList, errResult.topErrorsBySampler)
        /\ TiesInOrderOfFirstEncounter(errList, errResult.topErrorsBySampler)

\* the same for the lists without a label that is an array index
TopSamplersInOrderUnlessIndex ==
    (errPc = "done" /\ \A k \in 1..Len(errList) : ArrayIndexOf(errList[k].label) < 0) =>
        /\ TopSamplersAreTheMostFrequent(errList, errResult.topErrorsBySampler)
        /\ TiesInOrderOfFirstEncounter(errList, errResult.topErrorsBySampler)

\* the first part alone, for every list
TopSamplersMostFrequent ==
    errPc = "done" => TopSamplersAreTheMostFrequent(errList, errResult.topErrorsBySampler)

\* ------------------------------------------------------------------------
\* Properties of generateAIAnalysis
\* ------------------------------------------------------------------------
\* the call has gone through the loop over the models and has returned
AnalysisAttempted == aiPc = "done" /\ Len(aiTried) >= 1

\* the primary model first, then the fallback models in the configured order
\* (the defaults where the config sets none)
ConfiguredOrder ==
    <<IF "model" \in DOMAIN aiConfig /\ aiConfig.model # "" THEN aiConfig.model
      ELSE "gemini-2.5-pro">>
    \o (IF "fallbackModels" \in DOMAIN aiConfig THEN aiConfig.fallbackModels
        ELSE <<"gemini-1.5-pro", "gemini-pro">>)

\* the models tried are the first models of the configured order, in that
\* order, and every tried model before the last one threw
TriedInConfiguredOrder ==
    /\ Len(aiTried) <= Len(ConfiguredOrder)
    /\ \A k \in 1..Len(aiTried) : aiTried[k].model = ConfiguredOrder[k]
    /\ \A k \in 1..(Len(aiTried) - 1) : aiTried[k].threw

\* the last model tried returned a text
LastReturned == ~aiTried[Len(aiTried)].threw

\* a result with success = false and the fallback page
IsFallbackResult(r) ==
    /\ r.success = FALSE
    /\ Len(r.html) >= 2
    /\ r.html[2] = "fallback-message"

\* the result when the attempts are over: the text and the name of the model
\* that returned a non-empty text, else success = false with the fallback page
ResultFollowsAttempts ==
    IF LastReturned /\ aiTried[Len(aiTried)].text # ""
    THEN /\ aiResult.success = TRUE
         /\ aiResult.model = aiTried[Len(aiTried)].model
         /\ aiResult.rawAnalysis = aiTried[Len(aiTried)].text
    ELSE IsFallbackResult(aiResult)

IsStoppingError(attempt) ==
    /\ attempt.threw
    /\ \/ attempt.nullish
       \/ /\ \E k \in 1..Len(attempt.message) : attempt.message[k] \in {"403", "401", "API key"}
          /\ \A k \in 1..Len(attempt.message) : attempt.message[k] \notin {"not found", "404"}

AuthErrorStopsAttempts ==
    /\ aiPc = "done"
    /\ Len(aiTried) = 2
    /\ Len(ConfiguredOrder) = 3
    /\ IsStoppingError(aiTried[2])
    /\ IsFallbackResult(aiResult)

\* ------------------------------------------------------------------------
\* Properties of the result of the parse
\* ------------------------------------------------------------------------
\* a result was returned
Returned == pc = "done" /\ ~result.isNull

\* the elapsed values of the controller rows with the label, in log order
ControllerElapsedOf(label) ==
    SelectIdx([q \in 1..Len(allSamples) |-> allSamples[q].elapsed],
              {q \in 1..Len(allSamples) :
                  IsControllerSample(allSamples[q]) /\ allSamples[q].label = label}, 1)

\* C21: the statistics of a group are the statistics of the elapsed values of
\* the controller rows with its label, one value per execution; they lie
\* between the least and the largest of these values whatever the elapsed
\* values of the captured child requests and of the other rows are
StatsFromControllerRows ==
    Returned =>
        \A n \in DOMAIN result.transactions :
            LET t == result.transactions[n]
                own == ControllerElapsedOf(n)
            IN /\ Len(own) = Len(t.samples)
               /\ t.stats = calculateStatistics(own)
               /\ \E q \in 1..Len(own) : t.stats.min = own[q]
               /\ \E q \in 1..Len(own) : t.stats.max = own[q]
               /\ \A q \in 1..Len(own) : t.stats.min <= own[q] /\ own[q] <= t.stats.max
               /\ 2 * (t.stats.avg * Len(own) - SumSeq(own)) <= Len(own)
               /\ 2 * (SumSeq(own) - t.stats.avg * Len(own)) <= Len(own)

\* a 'Login' controller with elapsed 500 and one captured child with elapsed
\* 480: the average is 500
StatsFromControllerRowsWitness ==
    /\ Returned
    /\ "Login" \in DOMAIN result.transactions
    /\ Len(result.transactions["Login"].samples) = 1
    /\ result.transactions["Login"].samples[1].elapsed = 500
    /\ Len(result.transactions["Login"].childRequests) = 1
    /\ result.transactions["Login"].childRequests[1].elapsed = 480
    /\ result.transactions["Login"].childRequests[1].label = "POST /login"
    /\ result.transactions["Login"].stats.avg = 500

\* ------------------------------------------------------------------------
\* Properties of countThreadInstances: names, lists and time windows
\* ------------------------------------------------------------------------
\* the name is a prefix followed by '-' and a number, and the prefix does not
\* end with a number (the name does not end with '<number>-<number>')
IsNameNumber(name) ==
    LET d == DigitRunStart(name, Len(name))
    IN /\ d <= Len(name)
       /\ d >= 3
       /\ name[d - 1] = "-"
       /\ name[d - 2] \notin DigitChars

\* the prefix of such a name
NamePrefix(name) == SubSeq(name, 1, DigitRunStart(name, Len(name)) - 2)

\* C22: matched names that are one prefix followed by '-' and a number form
\* one group, so the count is the largest trailing number, not a sum over the
\* names
NameNumberCountIsMaximum ==
    (/\ thPc = "done"
     /\ MatchedNames # {}
     /\ \A n \in MatchedNames : IsNameNumber(n)
     /\ Cardinality({NamePrefix(n) : n \in MatchedNames}) = 1)
        => thCount = MaxOf({TrailingNumber(n) : n \in MatchedNames})

\* the same for one such name
NameNumberCountIsMaximumOfOneName ==
    (/\ thPc = "done"
     /\ MatchedNames # {}
     /\ \A n \in MatchedNames : IsNameNumber(n)
     /\ Cardinality(MatchedNames) = 1)
        => thCount = MaxOf({TrailingNumber(n) : n \in MatchedNames})

\* the names 'A-1', 'A-2' and 'A-3' are counted as 1 + 2 + 3
NameNumberCountIsSum ==
    /\ thPc = "done"
    /\ MatchedNames = {<<"A", "-", "1">>, <<"A", "-", "2">>, <<"A", "-", "3">>}
    /\ thCount = 6

\* the samples whose thread name contains one of the given names
SamplesContaining(names) ==
    SelectIdx(thSamples,
              {k \in 1..Len(thSamples) :
                  /\ Len(thSamples[k].threadName) > 0
                  /\ \E q \in 1..Len(names) : Includes(thSamples[k].threadName, names[q])},
              1)

\* a user type whose one pattern, the empty text, is contained in every name
EveryName == [key |-> "every", displayName |-> <<>>, threadGroupPatterns |-> <<<<>>>>]

\* the count of the given samples taken alone
CountOfSelected(selected) ==
    countThreadInstances(EveryName, NoNames, selected,
                         RampUpWindowOf(thCounting), ExecutionGapOf(thCounting))

\* C23: with a non-empty list of thread group names the count is that of the
\* samples whose thread name contains one of the names, taken alone (so the
\* patterns of the user type have no part in it), and 0 when there is no such
\* sample; without a list it is the count of the samples whose thread name
\* contains a pattern
ListOverridesPatterns ==
    thPc = "done" =>
        IF Len(thGroupNames) > 0
        THEN /\ thCount = CountOfSelected(SamplesContaining(thGroupNames))
             /\ Len(SamplesContaining(thGroupNames)) = 0 => thCount = 0
        ELSE thCount = CountOfSelected(SamplesContaining(PatternsOf(thUserType)))

\* a list none of whose names is in a thread name, given for a user type
\* whose pattern is in the thread names of three samples: the count is 0
ListOverridesPatternsWitness ==
    /\ thPc = "done"
    /\ Len(thGroupNames) > 0
    /\ Len(thSamples) = 3
    /\ Len(SamplesContaining(thGroupNames)) = 0
    /\ Len(SamplesContaining(PatternsOf(thUserType))) = 3
    /\ thCount = 0

\* the name ends with '-' or white space followed by a number
HasNumericSuffix(name) ==
    LET d == DigitRunStart(name, Len(name))
    IN d <= Len(name) /\ d >= 2 /\ (name[d - 1] = "-" \/ IsSpace(name[d - 1]))

\* the timestamps of the samples that match the user type
MatchedTimestamps ==
    {thSamples[k].timestamp : k \in {k \in 1..Len(thSamples) :
        /\ Len(thSamples[k].threadName) > 0
        /\ \E q \in 1..Len(NeedlesOf(thUserType, thGroupNames)) :
             Includes(thSamples[k].threadName, NeedlesOf(thUserType, thGroupNames)[q])}}

\* the timestamps at which an instance starts: the earliest one, and every
\* one that is more than the gap after the latest earlier one
InstanceStarts(stamps, gap) ==
    {t \in stamps :
        \/ \A u \in stamps : t <= u
        \/ \E u \in stamps : /\ u < t
                             /\ \A v \in stamps : v < t => v <= u
                             /\ t - u > gap}

\* C24: when the matched samples share one thread name without numeric
\* suffix, the count is the largest of the number of distinct ramp-up windows
\* in which an instance starts, the number of thread names (1) and 1
DegenerateCountIsWindows ==
    (/\ thPc = "done"
     /\ Cardinality(MatchedNames) = 1
     /\ \A n \in MatchedNames : ~HasNumericSuffix(n))
        => LET starts == InstanceStarts(MatchedTimestamps, ExecutionGapOf(thCounting))
               buckets == {t \div RampUpWindowOf(thCounting) : t \in starts}
           IN thCount = Max2(Max2(Cardinality(buckets), Cardinality(MatchedNames)), 1)

\* the samples of 'A' at 45000, 1000 and 1000, in this order of the log, with
\* the default durations: two instances in two windows
DegenerateCountIsWindowsWitness ==
    /\ thPc = "done"
    /\ thCounting = NoThreadCounting
    /\ MatchedNames = {<<"A">>}
    /\ Len(thSamples) = 3
    /\ thSamples[1].timestamp = 45000
    /\ thSamples[2].timestamp = 1000
    /\ thSamples[3].timestamp = 1000
    /\ thCount = 2

\* ------------------------------------------------------------------------
\* Properties of the environment
\* ------------------------------------------------------------------------
\* the tokens the pattern can take from a URL: the words w, not empty, for
\* which the URL contains 'app-' w '.azurewebsites.net' or
\* 'app-ui-' w '.azurewebsites.net' (w '.azurewebsites.net' after a character
\* that is no part of a word, or at the start, for the pattern for any host)
TokensOf(url, urlPattern) ==
    {SubSeq(url, a, b) : a \in 1..Len(url), b \in 1..Len(url)}
      \cap {w \in {SubSeq(url, a, b) : a \in 1..Len(url), b \in 1..Len(url)} :
              /\ Len(w) >= 1
              /\ \A j \in 1..Len(w) : IsWordChar(w[j])
              /\ IF urlPattern = HostUrlPattern
                 THEN \E k \in 1..Len(url) :
                         /\ HasAt(url, k, w \o <<".">> \o AzureHost)
                         /\ k = 1 \/ ~IsWordChar(url[k - 1])
                 ELSE \/ Includes(url, <<"a", "p", "p", "-">> \o w \o <<".">> \o AzureHost)
                      \/ Includes(url, <<"a", "p", "p", "-", "u", "i", "-">> \o w
                                         \o <<".">> \o AzureHost)}

\* the samples whose URL contains 'azurewebsites.net'
UrlsWithHost == {k \in 1..Len(envUrls) : Includes(envUrls[k], AzureHost)}

\* the text has no lower-case letter
IsUpperCase(s) == \A k \in 1..Len(s) : \A j \in 1..Len(LowerLetters) : s[k] # LowerLetters[j]

\* the original wording of C25: the environment is the token, in upper case,
\* that the pattern takes from the first URL, in log order, that contains
\* 'azurewebsites.net', and 'Unknown' when there is no such URL or the pattern
\* takes nothing from it
EnvironmentFromFirstHostUrl ==
    envPc = "done" =>
        IF UrlsWithHost = {} THEN envResult = UnknownEnvironment
        ELSE LET first == CHOOSE k \in UrlsWithHost : \A j \in UrlsWithHost : k <= j
                 tokens == TokensOf(envUrls[first], UrlPatternOf(envConfig))
             IN IF tokens = {} THEN envResult = UnknownEnvironment
                ELSE \E w \in tokens : envResult = ToUpperCase(w)

\* C25 as amended: the environment is the token, in upper case, that the
\* pattern takes from the first URL, in log order, that contains
\* 'azurewebsites.net' and from which the pattern takes a token; it is
\* 'Unknown' when there is no such URL, and so when there are no samples
EnvironmentFromFirstMatchedUrl ==
    envPc = "done" =>
        LET matched == {k \in UrlsWithHost : TokensOf(envUrls[k], UrlPatternOf(envConfig)) # {}}
        IN IF matched = {} THEN envResult = UnknownEnvironment
           ELSE LET first == CHOOSE k \in matched : \A j \in matched : k <= j
                IN /\ \E w \in TokensOf(envUrls[first], UrlPatternOf(envConfig)) :
                         envResult = ToUpperCase(w)
                   /\ IsUpperCase(envResult)

\* 'web.azurewebsites.net', from which the default pattern takes nothing, then
\* 'app-ui-dev.azurewebsites.net/q', then 'app-qa.azurewebsites.net': DEV
EnvironmentFromFirstMatchedUrlWitness ==
    /\ envPc = "done"
    /\ envConfig = EmptyMap
    /\ Len(envUrls) = 3
    /\ envUrls[1] = <<"w", "e", "b", ".">> \o AzureHost
    /\ envUrls[2] = <<"a", "p", "p", "-", "u", "i", "-", "d", "e", "v", ".">> \o AzureHost \o <<"/", "q">>
    /\ envUrls[3] = <<"a", "p", "p", "-", "q", "a", ".">> \o AzureHost
    /\ envResult = <<"D", "E", "V">>

\* ------------------------------------------------------------------------
\* Properties of the result: timestamps, unique children, captures, tallies
\* ------------------------------------------------------------------------
\* C26: in a returned result with accepted rows the start timestamp is the
\* least timestamp and the end timestamp the largest timestamp + elapsed of
\* the accepted rows, controller rows and request rows alike, and the start
\* is not after the end
TimestampsSpanAllRows ==
    (Returned /\ Len(allSamples) > 0) =>
        /\ \E q \in 1..Len(allSamples) : result.startTimestamp = allSamples[q].timestamp
        /\ \A q \in 1..Len(allSamples) : result.startTimestamp <= allSamples[q].timestamp
        /\ \E q \in 1..Len(allSamples) :
              result.endTimestamp = allSamples[q].timestamp + allSamples[q].elapsed
        /\ \A q \in 1..Len(allSamples) :
              result.endTimestamp >= allSamples[q].timestamp + allSamples[q].elapsed
        /\ result.startTimestamp <= result.endTimestamp

\* what the code keeps: the bounds are taken over the accepted rows with a
\* timestamp above 0 only, from Infinity and 0
TimestampsSpanPositiveRows ==
    Returned =>
        LET positive == {q \in 1..Len(allSamples) : allSamples[q].timestamp > 0}
        IN /\ \A q \in positive :
                 /\ result.startTimestamp <= allSamples[q].timestamp
                 /\ result.endTimestamp >= allSamples[q].timestamp + allSamples[q].elapsed
           /\ IF positive = {} THEN result.startTimestamp = Infinity /\ result.endTimestamp = 0
              ELSE /\ \E q \in positive : result.startTimestamp = allSamples[q].timestamp
                   /\ \/ result.endTimestamp = 0
                      \/ \E q \in positive :
                            result.endTimestamp = allSamples[q].timestamp + allSamples[q].elapsed

\* a result whose start is Infinity and whose end is 0: no accepted row has a
\* timestamp above 0
StartAfterEnd ==
    /\ Returned
    /\ Len(allSamples) > 0
    /\ result.startTimestamp = Infinity
    /\ result.endTimestamp = 0

\* position in the pool of the first request with the label
FirstWithLabel(pool, label) ==
    CHOOSE k \in 1..Len(pool) :
        pool[k].label = label /\ \A j \in 1..(k - 1) : pool[j].label # label

\* C27: uniqueChildRequests of a group has one entry per label of the flat
\* child pool, the first pooled request with that label, in order of first
\* occurrence; deduplicating it again changes nothing
UniqueChildrenAreFirstOfLabel ==
    Returned =>
        \A n \in DOMAIN result.transactions :
            LET pool == result.transactions[n].childRequests
                unique == result.transactions[n].uniqueChildRequests
            IN /\ {unique[k].label : k \in 1..Len(unique)} = {pool[k].label : k \in 1..Len(pool)}
               /\ \A k \in 1..Len(unique) : \A j \in 1..Len(unique) :
                     unique[k].label = unique[j].label => k = j
               /\ \A k \in 1..Len(unique) : unique[k] = pool[FirstWithLabel(pool, unique[k].label)]
               /\ \A k \in 1..Len(unique) : \A j \in 1..Len(unique) :
                     k < j => FirstWithLabel(pool, unique[k].label)
                                < FirstWithLabel(pool, unique[j].label)
               /\ UniqueByLabel(unique, {}) = unique

\* a pool of two requests with one label: the first of them is the one entry
UniqueChildrenAreFirstOfLabelWitness ==
    /\ Returned
    /\ \E n \in DOMAIN result.transactions :
         LET pool == result.transactions[n].childRequests
             unique == result.transactions[n].uniqueChildRequests
         IN /\ Len(pool) = 2
            /\ pool[1].label = pool[2].label
            /\ pool[1].row # pool[2].row
            /\ Len(unique) = 1
            /\ unique[1].row = pool[1].row

\* an execution is capturing and its quota is not filled
ExecutionCapturing ==
    /\ currentTransaction # <<>>
    /\ currentTransactionExecutionIndex >= 0
    /\ collectedChildRequestCount < expectedChildRequestCount

\* an accepted row that is neither a controller nor a request
IsNeitherSample(s) ==
    /\ ~IsControllerSample(s)
    /\ s.dataType = ""
    /\ s.url \in {"", "null"}

\* the row of this step is captured by the capturing execution
CapturedByCurrentExecution ==
    /\ currentTransaction[1] \in DOMAIN transactions
    /\ DOMAIN transactions' = DOMAIN transactions
    /\ \A n \in DOMAIN transactions :
          IF n = currentTransaction[1]
          THEN /\ transactions'[n].childRequests
                    = Append(transactions[n].childRequests, CurrentSample)
               /\ transactions'[n].childRequestsByExecution
                    = [transactions[n].childRequestsByExecution
                         EXCEPT ![currentTransactionExecutionIndex + 1] = Append(@, CurrentSample)]
          ELSE transactions'[n] = transactions[n]
    /\ collectedChildRequestCount' = collectedChildRequestCount + 1
    /\ currentTransaction' = currentTransaction
    /\ currentTransactionExecutionIndex' = currentTransactionExecutionIndex

\* C28: while an execution is capturing and its quota is not filled, a row
\* that is neither a controller nor a request is not captured, leaves the
\* collected count and the window as they are, and the request row that
\* follows it is captured by the same execution
NeitherRowKeepsWindow ==
    [][(InLoop /\ RowAccepted(CurrentValues, lines[1]) /\ ExecutionCapturing) =>
          /\ IsNeitherSample(CurrentSample) =>
                UNCHANGED <<transactions, currentTransaction, currentTransactionExecutionIndex,
                            expectedChildRequestCount, collectedChildRequestCount>>
          /\ (/\ IsRequestSample(CurrentSample)
              /\ Len(allSamples) > 0
              /\ IsNeitherSample(allSamples[Len(allSamples)])) => CapturedByCurrentExecution]_vars

\* the same for the executions of the groups whose name is not the empty
\* string
NeitherRowKeepsNamedWindow ==
    [][(/\ InLoop /\ RowAccepted(CurrentValues, lines[1])
        /\ ExecutionCapturing /\ currentTransaction # <<"">>) =>
          /\ IsNeitherSample(CurrentSample) =>
                UNCHANGED <<transactions, currentTransaction, currentTransactionExecutionIndex,
                            expectedChildRequestCount, collectedChildRequestCount>>
          /\ (/\ IsRequestSample(CurrentSample)
              /\ Len(allSamples) > 0
              /\ IsNeitherSample(allSamples[Len(allSamples)])) => CapturedByCurrentExecution]_vars

\* a row that is neither was passed while the execution of a named group was
\* capturing, and the request row after it is the first child of that execution
NeitherRowKeepsNamedWindowWitness ==
    /\ pc = "loop"
    /\ Len(allSamples) = 3
    /\ IsControllerSample(allSamples[1]) /\ allSamples[1].label # ""
    /\ IsNeitherSample(allSamples[2])
    /\ IsRequestSample(allSamples[3])
    /\ transactions[allSamples[1].label].childRequestsByExecution[1] = <<allSamples[3]>>

\* the lists of a list of lists, one after the other
RECURSIVE Flatten(_)
Flatten(lists) ==
    IF Len(lists) = 0 THEN <<>> ELSE Head(lists) \o Flatten(Tail(lists))

\* the places (group, execution, position) at which a row is captured
CapturePlaces(row) ==
    {p \in {<<n, k, j>> : n \in DOMAIN transactions, k \in 1..MaxLines, j \in 1..MaxLines} :
        /\ p[2] <= Len(transactions[p[1]].childRequestsByExecution)
        /\ p[3] <= Len(transactions[p[1]].childRequestsByExecution[p[2]])
        /\ transactions[p[1]].childRequestsByExecution[p[2]][p[3]].row = row}

ResultTalliesAgree ==
    Returned =>
        /\ result.totalErrorCount = Len(errors)
        /\ result.totalErrorCount = result.errorAnalysis.totalErrors
        /\ result.errorAnalysis.hasErrors = (Len(errors) > 0)
        /\ result.totalRequests = result.totalSuccessCount + result.totalErrorCount
        /\ result.totalRequests <= Len(allSamples)
        /\ result.passPercentage >= 0
        /\ result.passPercentage <= 10000
        /\ result.totalRequests = 0 => result.passPercentage = 10000
        /\ result.totalRequests > 0 =>
              /\ 2 * (result.passPercentage * result.totalRequests
                        - result.totalSuccessCount * 10000) <= result.totalRequests
              /\ 2 * (result.totalSuccessCount * 10000
                        - result.passPercentage * result.totalRequests) <= result.totalRequests

\* three accepted rows of which none was tallied: 100
ResultTalliesAgreeWitness ==
    /\ Returned
    /\ Len(allSamples) = 3
    /\ result.totalRequests = 0
    /\ result.passPercentage = 10000

====
